---- MODULE Spec2Model ----
(***************************************************************************)
(* Plan-execute-repair loop of the agentic system: tool registry,          *)
(* execution context, ExecutorAgent.execute and AgentRunner.run.           *)
(***************************************************************************)
EXTENDS Integers, Sequences, FiniteSets, TLC

(***************************************************************************)
(* Bounds of the model                                                     *)
(***************************************************************************)
MaxSteps == 2
MaxRetriesBound == 2
MaxDurationMs == 0
MaxRuns == 2
MaxAttemptsBound == 2
MaxMemOps == 3
MaxGoalLen == 3
MaxTextLen == 3

(***************************************************************************)
(* Values.  Optional[str] is a string with the sentinel NoneStr; a value   *)
(* of type Any is a record with a kind field.                              *)
(***************************************************************************)
NoneStr == "<None>"
Absent == "<absent>"
NoneV == [kind |-> "none"]
StrV(s) == [kind |-> "str", s |-> s]
DictV(a, m, b) == [kind |-> "dict", answer |-> a, message |-> m, body |-> b]
ObjV == [kind |-> "object"]
ListV == [kind |-> "list"]
EmptyDict == [k \in {} |-> NoneV]

Truthy(s) == s # NoneStr /\ s # ""

(***************************************************************************)
(* Tool names and the lower-casing of the lookup                           *)
(***************************************************************************)
ToolNames == {"http", "memory", "reasoning"}
RegisterableTools == {"reasoning"}
PlanToolNames == {"HTTP", "reasoning", "unknown"}

lower(name) ==
    CASE name = "HTTP" -> "http"
      [] name = "STORE" -> "store"
      [] OTHER -> name

(***************************************************************************)
(* Tool inputs: a mapping from field names to values.  A string value      *)
(* stands for itself; a value that is not a string is one of the sentinels *)
(* below.                                                                  *)
(***************************************************************************)
NonStrings == {"<None>", "<int>", "<dict>", "<emptydict>", "<list>", "<emptylist>"}
NumericStrings == {"30"}

IsPresent(input, f) == f \in DOMAIN input
IsStr(v) == v \notin NonStrings

EmptyInput == [f \in {} |-> ""]
FullInput == [f \in {"url", "question", "action", "key"} |->
                 CASE f = "url" -> "https://example.com"
                   [] f = "question" -> "q"
                   [] f = "action" -> "store"
                   [] OTHER -> "k"]
BadInput == [f \in {"url", "question", "action", "key"} |->
                 IF f = "action" THEN "store" ELSE "<int>"]
SampleInputs == {EmptyInput, FullInput, BadInput}

\* pydantic field checks of the three input schemas
StrField(input, f, required) ==
    IF IsPresent(input, f) THEN IsStr(input[f]) ELSE ~required
OptDictField(input, f) ==
    IsPresent(input, f) => input[f] \in {"<None>", "<dict>", "<emptydict>"}
IntField(input, f) ==
    IsPresent(input, f) => input[f] \in {"<int>"} \cup NumericStrings

model_validate(tool, input) ==
    CASE tool = "reasoning" ->
            StrField(input, "question", TRUE) /\ StrField(input, "context", FALSE)
      [] tool = "memory" ->
            StrField(input, "action", TRUE) /\ StrField(input, "key", TRUE)
      [] tool = "http" ->
            /\ StrField(input, "method", FALSE)
            /\ StrField(input, "url", TRUE)
            /\ OptDictField(input, "headers")
            /\ OptDictField(input, "body")
            /\ IntField(input, "timeout")
      [] OTHER -> TRUE

required_fields(tool) ==
    CASE tool = "reasoning" -> <<"question">>
      [] tool = "memory" -> <<"action", "key">>
      [] tool = "http" -> <<"url">>
      [] OTHER -> <<>>

(***************************************************************************)
(* What a tool call can do: return a ToolOutput or raise.                  *)
(***************************************************************************)
ToolOutput(s, r, e) == [success |-> s, result |-> r, error |-> e]
OutAnswer == DictV("4", Absent, Absent)
OutBody == DictV(Absent, Absent, "text")
SuccessResults == {OutAnswer, ObjV}
ToolReturns ==
    {ToolOutput(TRUE, r, NoneStr) : r \in SuccessResults}
        \cup {ToolOutput(FALSE, NoneV, "tool error")}
ToolRaises == {"tool crashed"}

(***************************************************************************)
(* Planned steps                                                           *)
(***************************************************************************)
\* a step before numbering
StepShapes(inputs) ==
    [tool_name : PlanToolNames \ {"unknown"}, input_data : inputs]
        \cup [tool_name : {"unknown"}, input_data : {EmptyInput}]
RECURSIVE SeqsUpTo(_, _)
SeqsUpTo(S, n) ==
    IF n = 0 THEN {<<>>}
    ELSE LET shorter == SeqsUpTo(S, n - 1)
         IN  shorter \cup {Append(s, x) : s \in {t \in shorter : Len(t) = n - 1}, x \in S}
\* step_number follows the list position or runs against it
Numberings == {"ascending", "descending"}
Numbered(shapes, numbering) ==
    [i \in 1..Len(shapes) |->
        [step_number |-> IF numbering = "ascending" THEN i ELSE Len(shapes) + 1 - i,
         tool_name |-> shapes[i].tool_name,
         input_data |-> shapes[i].input_data]]
PlansOf(inputs) ==
    {Numbered(q, n) : q \in SeqsUpTo(StepShapes(inputs), MaxSteps), n \in Numberings}
\* step lists a host hands to the Executor, and plans the language model proposes
DirectPlans == PlansOf({FullInput, BadInput})
Plans == PlansOf({EmptyInput, BadInput})
RetryValues == (-1)..MaxRetriesBound

Ids == 1..MaxRuns
Goals == {"what is 2+2", "calculate the current price"}
DirectGoal == "what is 2+2"
Durations == 0..MaxDurationMs

(***************************************************************************)
(* State                                                                   *)
(***************************************************************************)
VARIABLES
    registry,       \* ToolRegistry._tools: the registered tool names
    initialized,    \* app.tools._initialized
    contexts,       \* MemoryStore._contexts: execution_id -> ExecutionContext
    cur,            \* execution_id of the context of the call in progress (0: none)
    pc,             \* position of the call in progress
    mode,           \* "direct": ExecutorAgent.execute called by a host; "run": AgentRunner.run
    steps,          \* the step list handed to the Executor
    max_retries,    \* the max_retries argument
    idx,            \* position of the for loop in the step list (1-based)
    success,        \* locals of the retry loop
    retry_count,
    last_error,
    exc,            \* message of the exception in flight (NoneStr: none)
    outcome,        \* how the call ended for its caller: "none", "returned", "raised"
    exec_status,    \* the Executor in this call: "not_called", "running", "returned", "raised"
    call_registry,  \* the registry as it was when the call started
    issued,         \* the execution ids handed out, in order of creation
    events,         \* history of the call: lookups, structural checks, tool invocations
    returns,        \* history of the call: the ToolOutputs returned, in invocation order
    val,            \* the activation of ToolInputValidator.validate_and_repair under study
    probe,          \* the application of a pure function under study: its input and its result
    mem,            \* MemoryTool._store and the memory operations performed on it
    toolreg,        \* ToolRegistry._tools as a mapping from names to tool instances
    clients,        \* the runs that use the MemoryStore side by side
    response,       \* what the /execute endpoint answered for the run (NoResponse: nothing yet)
    llm             \* the language-model calls of PlannerAgent.plan under study, in order

vars == <<registry, initialized, contexts, cur, pc, mode, steps, max_retries, idx,
          success, retry_count, last_error, exc, outcome, exec_status, call_registry,
          issued, events, returns, val, probe, mem, toolreg, clients, response, llm>>

regVars == <<registry, initialized>>
callVars == <<cur, mode, call_registry, issued>>
execVars == <<steps, max_retries, idx, success, retry_count, last_error>>
histVars == <<events, returns>>
studyVars == <<mem, toolreg, clients, response, llm>>
pureVars == <<val, probe, studyVars>>

Ctx == contexts[cur]

\* no validator activation, no content extraction under study
ValIdle == [pc |-> "idle"]
ProbeIdle == [pc |-> "idle"]
\* the empty MemoryTool._store, the empty ToolRegistry, no run using the store
NoValues == [k \in {} |-> ""]
MemInit == [store |-> NoValues, log |-> <<>>]
ToolRegInit ==
    [tools |-> [n \in {} |-> 0], initialized |-> FALSE,
     last |-> [op |-> "none", name |-> "", inst |-> 0, result |-> ""]]
\* the endpoint has not answered
NoResponse ==
    [kind |-> "none", status_code |-> 0, detail |-> "", steps_completed |-> <<>>,
     intent |-> NoneStr, execution_summary |-> NoneV]
\* runs that use the execution store side by side; none has created a context
StoreRuns == 1..MaxRuns
NoGet == [asked |-> 0, found |-> FALSE, execution_id |-> 0, goal |-> ""]
NoClients ==
    [runs |-> [r \in StoreRuns |-> [pc |-> "new", id |-> 0, goal |-> "", status |-> "none"]],
     got |-> NoGet]

(***************************************************************************)
(* Messages                                                                *)
(***************************************************************************)
ToolNotFoundMsg(name) == "Tool '" \o name \o "' not found in registry"
InvalidInputMsg(tool_name) ==
    "Invalid tool input for '" \o tool_name \o "': validation error"
StepFailedMsg(n, m, details) ==
    "Step " \o ToString(n) \o " failed after " \o ToString(m) \o " attempts: " \o details
IndexErrorMsg == "list index out of range"
StepKey(n) == "step_" \o ToString(n)

(***************************************************************************)
(* ExecutionContext                                                        *)
(***************************************************************************)
NewContext(id, goal) ==
    [execution_id |-> id, goal |-> goal, intent |-> NoneStr,
     executed_steps |-> <<>>, intermediate_outputs |-> EmptyDict,
     final_result |-> NoneV, execution_summary |-> NoneV,
     status |-> "running", completed_at |-> NoneStr, error |-> NoneStr]

add_step_success_only(c, rec) ==
    IF rec.success THEN [c EXCEPT !.executed_steps = Append(@, rec)] ELSE c
add_step(c, rec) == [c EXCEPT !.executed_steps = Append(@, rec)]

Put(d, k, v) == [x \in DOMAIN d \cup {k} |-> IF x = k THEN v ELSE d[x]]
Get(d, k, default) == IF k \in DOMAIN d THEN d[k] ELSE default

set_output(c, step_number, output, key) ==
    IF Truthy(key)
    THEN [c EXCEPT !.intermediate_outputs = Put(@, key, output)]
    ELSE [c EXCEPT !.intermediate_outputs = Put(@, StepKey(step_number), output)]

complete_keeps_running(c, final_result) ==
    [c EXCEPT !.final_result = final_result, !.completed_at = "utcnow"]
complete(c, final_result) ==
    [c EXCEPT !.status = "completed", !.final_result = final_result,
              !.completed_at = "utcnow"]

fail_keeps_status(c, error) ==
    [c EXCEPT !.error = error, !.completed_at = "utcnow"]
fail(c, error) ==
    [c EXCEPT !.status = "failed", !.error = error, !.completed_at = "utcnow"]

MemoryExecutionStep(step, tool_name, result) ==
    [step_number |-> step.step_number, tool_name |-> tool_name,
     input_data |-> step.input_data, output |-> result.result,
     success |-> result.success, error |-> result.error]

(***************************************************************************)
(* MemoryStore                                                             *)
(***************************************************************************)
\* uuid.uuid4() yields an identifier that no earlier call has yielded
uuid4_any == Ids
uuid4 == Ids \ {issued[i] : i \in 1..Len(issued)}

create_execution_context(id, goal) == Put(contexts, id, NewContext(id, goal))

(***************************************************************************)
(* ToolRegistry                                                            *)
(***************************************************************************)
registry_get(name) == IF name \in registry THEN name ELSE NoneStr

Register(t) ==
    /\ pc \in {"idle", "done"}
    /\ registry' = IF t \in registry THEN registry ELSE registry \cup {t}
    /\ UNCHANGED <<initialized, contexts, pc, callVars, execVars, exc, outcome,
                   exec_status, histVars, pureVars>>

InitializeTools ==
    /\ pc \in {"idle", "done"}
    /\ IF initialized
       THEN UNCHANGED <<registry, initialized>>
       ELSE /\ registry' = registry \cup {"http", "memory"}
            /\ initialized' = TRUE
    /\ UNCHANGED <<contexts, pc, callVars, execVars, exc, outcome, exec_status, histVars, pureVars>>

(***************************************************************************)
(* ExecutorAgent.execute                                                   *)
(***************************************************************************)
Event(ev, pos, res) == [ev |-> ev, pos |-> pos, res |-> res]

\* the Executor has returned or raised: control goes back to its caller
ExecutorReturns == IF mode = "run" THEN "finalize" ELSE "done"
ExecutorRaises == IF mode = "run" THEN "except" ELSE "done"

\* a host calls ExecutorAgent.execute on a fresh context
ExecuteCall(limit, plans) ==
    /\ pc \in {"idle", "done"}
    /\ Len(issued) < limit
    /\ \E id \in uuid4, p \in plans, m \in RetryValues :
          /\ contexts' = create_execution_context(id, DirectGoal)
          /\ cur' = id
          /\ issued' = Append(issued, id)
          /\ steps' = p
          /\ max_retries' = m
    /\ mode' = "direct"
    /\ pc' = "exec"
    /\ exec_status' = "running"
    /\ call_registry' = registry
    /\ idx' = 1
    /\ success' = FALSE
    /\ retry_count' = 0
    /\ last_error' = NoneStr
    /\ exc' = NoneStr
    /\ outcome' = "none"
    /\ events' = <<>>
    /\ returns' = <<>>
    /\ UNCHANGED <<regVars, pureVars>>

\* the condition of the retry loop (executor.py 47)
while_condition_inclusive(s, rc, m) == ~s /\ rc <= m
while_condition(s, rc, m) == ~s /\ rc < m

\* the tool is absent: ValueError raised inside the try and caught by the
\* handler of the retry loop (executor.py 54-55, 95-98)
ToolAbsent_skipped(step) ==
    /\ success' = TRUE
    /\ events' = Append(events, Event("lookup", idx, "missing"))
    /\ UNCHANGED <<contexts, pc, retry_count, last_error, outcome, exec_status, returns>>
ToolAbsent(step) ==
    /\ last_error' = ToolNotFoundMsg(step.tool_name)
    /\ retry_count' = retry_count + 1
    /\ events' = Append(events, Event("lookup", idx, "missing"))
    /\ UNCHANGED <<contexts, pc, success, outcome, exec_status, returns>>

\* the structural check rejects the input (executor.py 57-63)
InputInvalid_retried(tool_name) ==
    /\ last_error' = InvalidInputMsg(tool_name)
    /\ retry_count' = retry_count + 1
    /\ events' = events \o <<Event("lookup", idx, "found"),
                             Event("validate", idx, "invalid")>>
    /\ UNCHANGED <<contexts, pc, success, outcome, exec_status, returns>>
InputInvalid(tool_name) ==
    /\ contexts' = [contexts EXCEPT ![cur] = fail(@, InvalidInputMsg(tool_name))]
    /\ pc' = ExecutorReturns
    /\ exec_status' = "returned"
    /\ outcome' = IF mode = "direct" THEN "returned" ELSE outcome
    /\ events' = events \o <<Event("lookup", idx, "found"),
                             Event("validate", idx, "invalid")>>
    /\ UNCHANGED <<success, retry_count, last_error, returns>>

\* tool.execute raises (executor.py 66, 95-98)
ToolRaised(msg) ==
    /\ last_error' = msg
    /\ retry_count' = retry_count + 1
    /\ events' = events \o <<Event("lookup", idx, "found"),
                             Event("validate", idx, "valid"),
                             Event("invoke", idx, "raised")>>
    /\ UNCHANGED <<contexts, pc, success, outcome, exec_status, returns>>

\* tool.execute returns a ToolOutput (executor.py 66-93)
ToolReturned(step, tool_name, result) ==
    /\ contexts' = [contexts EXCEPT ![cur] =
           set_output(add_step(@, MemoryExecutionStep(step, tool_name, result)),
                      step.step_number, result.result, tool_name)]
    /\ IF result.success
       THEN /\ success' = TRUE
            /\ UNCHANGED <<retry_count, last_error>>
       ELSE /\ last_error' = IF Truthy(result.error) THEN result.error
                             ELSE "Tool returned no error details"
            /\ retry_count' = retry_count + 1
            /\ UNCHANGED success
    /\ events' = events \o <<Event("lookup", idx, "found"),
                             Event("validate", idx, "valid"),
                             Event("invoke", idx, "returned")>>
    /\ returns' = Append(returns, [pos |-> idx, out |-> result])
    /\ UNCHANGED <<pc, outcome, exec_status>>

\* one iteration of the while loop (executor.py 47-98)
ExecAttempt ==
    /\ pc = "exec"
    /\ idx <= Len(steps)
    /\ while_condition(success, retry_count, max_retries)
    /\ LET step == steps[idx]
           tool_name == lower(step.tool_name)
           tool == registry_get(tool_name)
       IN  IF tool = NoneStr
           THEN ToolAbsent(step)
           ELSE IF ~model_validate(tool, step.input_data)
           THEN InputInvalid(tool_name)
           ELSE \/ \E msg \in ToolRaises : ToolRaised(msg)
                \/ \E result \in ToolReturns : ToolReturned(step, tool_name, result)
    /\ UNCHANGED <<regVars, callVars, steps, max_retries, idx, exc, pureVars>>

\* the step failed max_retries times: fail the context and return
\* (executor.py 100-105)
StepExhausted_continues ==
    LET error_details == IF Truthy(last_error) THEN last_error
                         ELSE "No error details were provided"
        error_msg == StepFailedMsg(steps[idx].step_number, max_retries, error_details)
    IN  /\ contexts' = [contexts EXCEPT ![cur] = fail(@, error_msg)]
        /\ idx' = idx + 1
        /\ success' = FALSE
        /\ retry_count' = 0
        /\ last_error' = NoneStr
        /\ UNCHANGED <<pc, outcome, exec_status>>
StepExhausted ==
    LET error_details == IF Truthy(last_error) THEN last_error
                         ELSE "No error details were provided"
        error_msg == StepFailedMsg(steps[idx].step_number, max_retries, error_details)
    IN  /\ contexts' = [contexts EXCEPT ![cur] = fail(@, error_msg)]
        /\ pc' = ExecutorReturns
        /\ exec_status' = "returned"
        /\ outcome' = IF mode = "direct" THEN "returned" ELSE outcome
        /\ UNCHANGED <<idx, success, retry_count, last_error>>

\* the while loop ends for the current step (executor.py 47, 100-105)
ExecStepEnd ==
    /\ pc = "exec"
    /\ idx <= Len(steps)
    /\ ~while_condition(success, retry_count, max_retries)
    /\ IF ~success
       THEN StepExhausted
       ELSE /\ idx' = idx + 1
            /\ success' = FALSE
            /\ retry_count' = 0
            /\ last_error' = NoneStr
            /\ UNCHANGED <<contexts, pc, outcome, exec_status>>
    /\ UNCHANGED <<regVars, callVars, steps, max_retries, exc, histVars, pureVars>>

\* the result synthesized from a reasoning step (executor.py 112-121)
ReasoningResult(last_step) ==
    LET answer_content == IF last_step.output.kind = "dict" /\ last_step.output.answer # Absent
                          THEN last_step.output.answer ELSE NoneStr
    IN  [kind |-> "synthesized",
         raw_content |-> IF Truthy(answer_content) THEN StrV(answer_content)
                         ELSE last_step.output,
         source |-> "reasoning-only",
         note |-> "No external tools used"]

\* all steps succeeded: final-result extraction (executor.py 107-128)
ExecFinish ==
    /\ pc = "exec"
    /\ idx > Len(steps)
    /\ LET recs == Ctx.executed_steps
           has_last == Len(recs) > 0
       IN  IF has_last /\ recs[Len(recs)].tool_name = "reasoning" /\ recs[Len(recs)].success
           THEN /\ contexts' = [contexts EXCEPT ![cur] =
                                    complete(@, ReasoningResult(recs[Len(recs)]))]
                /\ pc' = ExecutorReturns
                /\ exec_status' = "returned"
                /\ outcome' = IF mode = "direct" THEN "returned" ELSE outcome
                /\ UNCHANGED exc
           ELSE IF Len(steps) = 0
           THEN \* steps[-1] of an empty list raises IndexError
                /\ exc' = IndexErrorMsg
                /\ pc' = ExecutorRaises
                /\ exec_status' = "raised"
                /\ outcome' = IF mode = "direct" THEN "raised" ELSE outcome
                /\ UNCHANGED contexts
           ELSE LET last_output == Get(Ctx.intermediate_outputs,
                                       StepKey(steps[Len(steps)].step_number), NoneV)
                IN  /\ contexts' = [contexts EXCEPT ![cur] = complete(@, last_output)]
                    /\ pc' = ExecutorReturns
                    /\ exec_status' = "returned"
                    /\ outcome' = IF mode = "direct" THEN "returned" ELSE outcome
                    /\ UNCHANGED exc
    /\ UNCHANGED <<regVars, callVars, execVars, histVars, pureVars>>

(***************************************************************************)
(* ToolInputValidator                                                      *)
(***************************************************************************)
max_attempts == 2

InputGet(input, f) == IF f \in DOMAIN input THEN input[f] ELSE "<None>"

has_value(v) == v \notin {"<None>", "", " ", "<emptydict>", "<emptylist>"}

RECURSIVE Join(_)
Join(names) ==
    IF names = <<>> THEN ""
    ELSE IF Len(names) = 1 THEN names[1]
    ELSE names[1] \o ", " \o Join(Tail(names))

collect_errors_short_circuit(tool, input) ==
    LET missing == SelectSeq(required_fields(tool),
                             LAMBDA f : ~has_value(InputGet(input, f)))
    IN  IF missing # <<>>
        THEN <<"missing required fields: [" \o Join(missing) \o "]">>
        ELSE IF ~model_validate(tool, input)
        THEN <<"schema validation error">> ELSE <<>>
collect_errors(tool, input) ==
    LET missing == SelectSeq(required_fields(tool),
                             LAMBDA f : ~has_value(InputGet(input, f)))
    IN  (IF missing # <<>>
         THEN <<"missing required fields: [" \o Join(missing) \o "]">> ELSE <<>>)
        \o (IF ~model_validate(tool, input)
            THEN <<"schema validation error">> ELSE <<>>)

LlmErrorMsg == "LLM call failed"
RepairExhaustedMsg(tool_name, errors) ==
    "Unable to repair tool input for '" \o tool_name \o "'. Validation errors: ["
        \o Join(errors) \o "]"

\* what the language model can answer to a repair request
RepairReplies == SampleInputs

\* the outcomes of validate_and_repair from the given attempt on: the input
\* returned, or the error raised, with the number of repair calls made
RECURSIVE validate_and_repair(_, _, _, _)
validate_and_repair_unchecked(tool_name, input, attempt, calls) ==
    {[kind |-> "ok", input |-> input, calls |-> calls, msg |-> ""]}
validate_and_repair(tool_name, input, attempt, calls) ==
    LET errors == collect_errors(tool_name, input)
        Raise(msg, n) == [kind |-> "raise", input |-> input, calls |-> n, msg |-> msg]
    IN  IF errors = <<>>
        THEN {[kind |-> "ok", input |-> input, calls |-> calls, msg |-> ""]}
        ELSE IF attempt >= max_attempts
        THEN {Raise(RepairExhaustedMsg(tool_name, errors), calls)}
        ELSE {Raise(LlmErrorMsg, calls + 1),
              Raise(RepairExhaustedMsg(tool_name, errors), calls + 1)}
             \cup UNION {validate_and_repair(tool_name, r, attempt + 1, calls + 1) :
                           r \in RepairReplies}

(***************************************************************************)
(* PlannerAgent                                                            *)
(***************************************************************************)
\* the keywords of the word lists that occur in the lower-cased goal
GoalKeywords(goal) ==
    CASE goal = "what is 2+2" -> {"what is"}
      [] goal = "calculate the current price" -> {"calculate", "current", "price"}
      [] OTHER -> {}

reasoning_keywords ==
    {"explain", "define", "what is", "why", "how", "summarize", "compare", "list"}
tool_keywords ==
    {"current", "latest", "today", "price", "stock", "weather", "news", "real-time",
     "rate", "fetch", "lookup", "api", "http", "url"}

\* AgentRunner.run is modelled for calls without a user context
classify_intent(goal) ==
    LET has_reasoning == GoalKeywords(goal) \cap reasoning_keywords # {}
        has_tool == GoalKeywords(goal) \cap tool_keywords # {}
    IN  IF has_tool /\ has_reasoning THEN "mixed"
        ELSE IF has_tool THEN "tool_required"
        ELSE "reasoning_only"

infer_memory_key(goal) ==
    CASE goal = "what is 2+2" -> "what_is_2_2"
      [] goal = "calculate the current price" -> "calculate_the_current_price"
      [] OTHER -> "result"

repair_tool_input_skipped(goal, tool_name, input) == input
repair_tool_input(goal, tool_name, input) ==
    CASE tool_name = "reasoning" ->
            IF ~has_value(InputGet(input, "question"))
            THEN Put(input, "question", goal) ELSE input
      [] tool_name = "memory" ->
            LET withAction ==
                    IF ~has_value(InputGet(input, "action"))
                    THEN Put(input, "action",
                             IF "retrieve" \in GoalKeywords(goal) THEN "retrieve" ELSE "store")
                    ELSE input
            IN  IF ~has_value(InputGet(withAction, "key"))
                THEN Put(withAction, "key", infer_memory_key(goal)) ELSE withAction
      [] OTHER -> input

PlanParseErrorMsg ==
    "Could not parse execution plan from LLM response: Could not parse JSON"

(***************************************************************************)
(* AgentRunner                                                             *)
(***************************************************************************)
RECURSIVE tools_used_of(_)
tools_used_first_success(recs) ==
    LET ok == SelectSeq(recs, LAMBDA r : r.success)
    IN  [i \in 1..(IF Len(ok) > 0 THEN 1 ELSE 0) |-> ok[1].tool_name]
tools_used_of(recs) ==
    IF recs = <<>> THEN <<>>
    ELSE LET before == tools_used_of(SubSeq(recs, 1, Len(recs) - 1))
             name == recs[Len(recs)].tool_name
         IN  IF \E i \in 1..Len(before) : before[i] = name
             THEN before ELSE Append(before, name)

build_execution_summary_failed_tools(c, duration_ms) ==
    [kind |-> "summary",
     tools_used |-> tools_used_of(c.executed_steps),
     tool_failures |-> Cardinality({c.executed_steps[i].tool_name :
                                       i \in {j \in 1..Len(c.executed_steps) :
                                                 ~c.executed_steps[j].success}}),
     reasoning_steps |-> Cardinality({i \in 1..Len(c.executed_steps) :
                                       c.executed_steps[i].tool_name = "reasoning"}),
     duration_ms |-> duration_ms]
build_execution_summary(c, duration_ms) ==
    [kind |-> "summary",
     tools_used |-> tools_used_of(c.executed_steps),
     tool_failures |-> Cardinality({i \in 1..Len(c.executed_steps) :
                                       ~c.executed_steps[i].success}),
     reasoning_steps |-> Cardinality({i \in 1..Len(c.executed_steps) :
                                       c.executed_steps[i].tool_name = "reasoning"}),
     duration_ms |-> duration_ms]

JsonDumps(v) ==
    CASE v.kind = "dict" ->
            "{" \o (IF v.answer # Absent THEN "answer: " \o v.answer \o " " ELSE "")
                \o (IF v.message # Absent THEN "message: " \o v.message \o " " ELSE "")
                \o (IF v.body # Absent THEN "body: " \o v.body ELSE "") \o "}"
      [] v.kind = "str" -> v.s
      [] v.kind = "list" -> "[1, 2]"
      [] OTHER -> "null"
JsonSerializable(v) == v.kind # "object"
JsonErrorMsg == "Object of type object is not JSON serializable"
NoDataMsg == "Tool completed but returned no data."

\* a body that is not a string: a mapping (serialized) or a number (stringified)
BodyText(body) ==
    CASE body = "<dict>" -> "{k: v}"
      [] body = "<int>" -> "7"
      [] OTHER -> body

\* the content string, or "raise" when json.dumps raises TypeError
extract_content_message_first(last_step) ==
    LET output == last_step.output
    IN  CASE output.kind = "none" -> [kind |-> "ok", s |-> NoDataMsg]
          [] output.kind = "str" ->
                [kind |-> "ok", s |-> IF output.s = "" THEN NoDataMsg ELSE output.s]
          [] output.kind = "dict" ->
                IF output.message # Absent /\ Truthy(output.message)
                THEN [kind |-> "ok", s |-> output.message]
                ELSE IF output.answer # Absent /\ Truthy(output.answer)
                THEN [kind |-> "ok", s |-> output.answer]
                ELSE IF output.body # Absent
                THEN IF output.body \in {NoneStr, ""}
                     THEN [kind |-> "ok", s |-> NoDataMsg]
                     ELSE [kind |-> "ok", s |-> BodyText(output.body)]
                ELSE [kind |-> "ok", s |-> JsonDumps(output)]
          [] output.kind = "list" -> [kind |-> "ok", s |-> JsonDumps(output)]
          [] OTHER -> [kind |-> "raise", s |-> JsonErrorMsg]
extract_content(last_step) ==
    LET output == last_step.output
    IN  CASE output.kind = "none" -> [kind |-> "ok", s |-> NoDataMsg]
          [] output.kind = "str" ->
                [kind |-> "ok", s |-> IF output.s = "" THEN NoDataMsg ELSE output.s]
          [] output.kind = "dict" ->
                IF output.answer # Absent /\ Truthy(output.answer)
                THEN [kind |-> "ok", s |-> output.answer]
                ELSE IF output.message # Absent /\ Truthy(output.message)
                THEN [kind |-> "ok", s |-> output.message]
                ELSE IF output.body # Absent
                THEN IF output.body \in {NoneStr, ""}
                     THEN [kind |-> "ok", s |-> NoDataMsg]
                     ELSE [kind |-> "ok", s |-> BodyText(output.body)]
                ELSE [kind |-> "ok", s |-> JsonDumps(output)]
          [] output.kind = "list" -> [kind |-> "ok", s |-> JsonDumps(output)]
          [] OTHER -> [kind |-> "raise", s |-> JsonErrorMsg]

derive_source(tools_used) ==
    IF tools_used = <<"reasoning">> THEN "reasoning-only"
    ELSE IF tools_used = <<"http">> THEN "http"
    ELSE "mixed"

deterministic_keywords ==
    {"calculate", "sum", "add", "subtract", "multiply", "divide", "math", "code"}

derive_confidence_ignores_goal(source, goal) ==
    IF source = "tool-failure" THEN "low" ELSE "high"
derive_confidence(source, goal) ==
    IF source = "tool-failure" THEN "low"
    ELSE IF source \in {"http", "mixed"} THEN "high"
    ELSE IF GoalKeywords(goal) \cap deterministic_keywords # {} THEN "high"
    ELSE "medium"

Resolved(content, source, confidence, id) ==
    [kind |-> "resolved", content |-> content, source |-> source,
     confidence |-> confidence, execution_id |-> id]

\* the message of the failure path (runner.py 131-138)
failure_message_last_step_first(c) ==
    LET recs == c.executed_steps
        error_msg == IF Len(recs) > 0 /\ Truthy(recs[Len(recs)].error)
                     THEN recs[Len(recs)].error ELSE c.error
    IN  IF Truthy(error_msg) THEN "Tool execution failed. " \o error_msg
        ELSE "Tool execution failed. No additional error details were provided."
failure_message(c) ==
    LET recs == c.executed_steps
        error_msg == IF ~Truthy(c.error) /\ Len(recs) > 0
                        /\ Truthy(recs[Len(recs)].error)
                     THEN recs[Len(recs)].error ELSE c.error
    IN  IF Truthy(error_msg) THEN "Tool execution failed. " \o error_msg
        ELSE "Tool execution failed. No additional error details were provided."

\* the context after _resolve_final_output; raised tells whether it raised
resolve_final_output_status_only(c) ==
    LET recs == c.executed_steps
        has_last == Len(recs) > 0
        tools_used == IF c.execution_summary.kind = "summary"
                      THEN c.execution_summary.tools_used ELSE <<>>
        in_tools(t) == \E i \in 1..Len(tools_used) : tools_used[i] = t
    IN  IF c.status = "failed"
        THEN LET base_message == failure_message(c)
                 content == IF in_tools("http")
                            THEN "Unable to fetch live data via HTTP tool. " \o base_message
                            ELSE base_message
             IN  [raised |-> FALSE,
                  ctx |-> [c EXCEPT !.final_result =
                              Resolved(content, "tool-failure", "low", c.execution_id)]]
        ELSE IF ~has_last
        THEN [raised |-> FALSE,
              ctx |-> [c EXCEPT !.final_result =
                          Resolved("No steps were executed for this goal.",
                                   "tool-failure", "low", c.execution_id)]]
        ELSE LET content == extract_content(recs[Len(recs)])
                 source == derive_source(tools_used)
                 confidence == derive_confidence(source, c.goal)
             IN  IF content.kind = "raise"
                 THEN [raised |-> TRUE, ctx |-> c]
                 ELSE [raised |-> FALSE,
                       ctx |-> [c EXCEPT !.final_result =
                                   Resolved(content.s, source, confidence, c.execution_id)]]
resolve_final_output(c) ==
    LET recs == c.executed_steps
        has_last == Len(recs) > 0
        tools_used == IF c.execution_summary.kind = "summary"
                      THEN c.execution_summary.tools_used ELSE <<>>
        in_tools(t) == \E i \in 1..Len(tools_used) : tools_used[i] = t
    IN  IF c.status = "failed" \/ \E i \in 1..Len(recs) : ~recs[i].success
        THEN LET base_message == failure_message(c)
                 content == IF in_tools("http")
                            THEN "Unable to fetch live data via HTTP tool. " \o base_message
                            ELSE base_message
             IN  [raised |-> FALSE,
                  ctx |-> [c EXCEPT !.final_result =
                              Resolved(content, "tool-failure", "low", c.execution_id)]]
        ELSE IF ~has_last
        THEN [raised |-> FALSE,
              ctx |-> [c EXCEPT !.final_result =
                          Resolved("No steps were executed for this goal.",
                                   "tool-failure", "low", c.execution_id)]]
        ELSE LET content == extract_content(recs[Len(recs)])
                 source == derive_source(tools_used)
                 confidence == derive_confidence(source, c.goal)
             IN  IF content.kind = "raise"
                 THEN [raised |-> TRUE, ctx |-> c]
                 ELSE [raised |-> FALSE,
                       ctx |-> [c EXCEPT !.final_result =
                                   Resolved(content.s, source, confidence, c.execution_id)]]

\* AgentRunner.run up to the planning call (runner.py 45-57)
RunStart(limit, retries) ==
    /\ pc \in {"idle", "done"}
    /\ Len(issued) < limit
    /\ \E id \in uuid4, goal \in Goals, m \in retries :
          /\ contexts' = [create_execution_context(id, goal) EXCEPT
                              ![id].intent = classify_intent(goal)]
          /\ cur' = id
          /\ issued' = Append(issued, id)
          /\ max_retries' = m
    /\ mode' = "run"
    /\ pc' = "plan"
    /\ exec_status' = "not_called"
    /\ call_registry' = registry
    /\ steps' = <<>>
    /\ idx' = 1
    /\ success' = FALSE
    /\ retry_count' = 0
    /\ last_error' = NoneStr
    /\ exc' = NoneStr
    /\ outcome' = "none"
    /\ events' = <<>>
    /\ returns' = <<>>
    /\ UNCHANGED <<regVars, pureVars>>

\* PlannerAgent.plan: the planning call and _parse_plan (planner.py 55-59)
PlanCall_accepts_partial(plans) ==
    /\ pc = "plan"
    /\ \/ /\ exc' = LlmErrorMsg
          /\ pc' = "except"
          /\ UNCHANGED steps
       \/ \E p \in plans :
             /\ exc' = PlanParseErrorMsg
             /\ steps' = p
             /\ pc' = "repair"
       \/ \E p \in plans :
             /\ steps' = p
             /\ pc' = "repair"
             /\ UNCHANGED exc
    /\ UNCHANGED <<regVars, contexts, callVars, max_retries, idx, success,
                   retry_count, last_error, outcome, exec_status, histVars, pureVars>>
PlanCall(plans) ==
    /\ pc = "plan"
    /\ \/ /\ exc' = LlmErrorMsg
          /\ pc' = "except"
          /\ UNCHANGED steps
       \/ /\ exc' = PlanParseErrorMsg
          /\ pc' = "except"
          /\ UNCHANGED steps
       \/ \E p \in plans :
             /\ steps' = p
             /\ pc' = "repair"
             /\ UNCHANGED exc
    /\ UNCHANGED <<regVars, contexts, callVars, max_retries, idx, success,
                   retry_count, last_error, outcome, exec_status, histVars, pureVars>>

\* one iteration of the loop of _validate_and_repair_steps (planner.py 241-255)
PlanRepairStep ==
    /\ pc = "repair"
    /\ idx <= Len(steps)
    /\ LET step == steps[idx]
           tool_name == lower(step.tool_name)
       IN  IF registry_get(tool_name) = NoneStr
           THEN /\ idx' = idx + 1
                /\ UNCHANGED <<steps, pc, exc>>
           ELSE \E r \in validate_and_repair(
                           tool_name, repair_tool_input(Ctx.goal, tool_name, step.input_data),
                           0, 0) :
                   IF r.kind = "ok"
                   THEN /\ steps' = [steps EXCEPT ![idx].input_data = r.input]
                        /\ idx' = idx + 1
                        /\ UNCHANGED <<pc, exc>>
                   ELSE /\ exc' = r.msg
                        /\ pc' = "except"
                        /\ UNCHANGED <<steps, idx>>
    /\ UNCHANGED <<regVars, contexts, callVars, max_retries, success,
                   retry_count, last_error, outcome, exec_status, histVars, pureVars>>

\* plan returns and the Executor is entered (planner.py 257, runner.py 62-71)
PlanReturn ==
    /\ pc = "repair"
    /\ idx > Len(steps)
    /\ pc' = "exec"
    /\ exec_status' = "running"
    /\ idx' = 1
    /\ UNCHANGED <<regVars, contexts, callVars, steps, max_retries, success,
                   retry_count, last_error, exc, outcome, histVars, pureVars>>

\* summary, resolution and persistence (runner.py 73-84 and 90-97)
Summarize(c, d) == [c EXCEPT !.execution_summary = build_execution_summary(c, d)]

RunFinalize ==
    /\ pc \in {"finalize", "except_finalize"}
    /\ \E d \in Durations :
          LET r == resolve_final_output(Summarize(Ctx, d))
          IN  /\ contexts' = [contexts EXCEPT ![cur] = r.ctx]
              /\ IF r.raised
                 THEN /\ pc' = IF pc = "finalize" THEN "except" ELSE "done"
                      /\ exc' = JsonErrorMsg
                      /\ outcome' = IF pc = "finalize" THEN outcome ELSE "raised"
                      /\ events' = Append(events, Event("resolve", 0, "raised"))
                 ELSE /\ pc' = "done"
                      /\ outcome' = "returned"
                      /\ events' = events \o <<Event("resolve", 0, "done"),
                                               Event("save", 0, "done")>>
                      /\ UNCHANGED exc
    /\ UNCHANGED <<regVars, callVars, execVars, exec_status, returns, pureVars>>

\* the except clause of AgentRunner.run up to fail (runner.py 86-89)
RunExcept ==
    /\ pc = "except"
    /\ contexts' = [contexts EXCEPT ![cur] = fail(@, "Agent run failed: " \o exc)]
    /\ pc' = "except_finalize"
    /\ UNCHANGED <<regVars, callVars, execVars, exc, outcome, exec_status, histVars, pureVars>>

InitCall ==
    /\ registry = {}
    /\ initialized = FALSE
    /\ contexts = [i \in {} |-> NewContext(0, "")]
    /\ cur = 0
    /\ pc = "idle"
    /\ mode = "direct"
    /\ steps = <<>>
    /\ max_retries = 0
    /\ idx = 1
    /\ success = FALSE
    /\ retry_count = 0
    /\ last_error = NoneStr
    /\ exc = NoneStr
    /\ outcome = "none"
    /\ exec_status = "not_called"
    /\ call_registry = {}
    /\ issued = <<>>
    /\ events = <<>>
    /\ returns = <<>>

Init ==
    /\ InitCall
    /\ val = ValIdle
    /\ probe = ProbeIdle
    /\ mem = MemInit
    /\ toolreg = ToolRegInit
    /\ clients = NoClients
    /\ response = NoResponse
    /\ llm = <<>>

Next ==
    \/ InitializeTools
    \/ \E t \in RegisterableTools : Register(t)
    \/ ExecuteCall(1, DirectPlans)
    \/ RunStart(1, RetryValues)
    \/ PlanCall(Plans)
    \/ PlanRepairStep
    \/ PlanReturn
    \/ RunFinalize
    \/ RunExcept
    \/ ExecAttempt
    \/ ExecStepEnd
    \/ ExecFinish

Spec == Init /\ [][Next]_vars

(***************************************************************************)
(* Several runs of AgentRunner.run, one after the other, with short plans  *)
(***************************************************************************)
SmallPlans == {p \in Plans : Len(p) <= 1}
SmallRetries == {1}

NextRuns ==
    \/ InitializeTools
    \/ \E t \in RegisterableTools : Register(t)
    \/ RunStart(MaxRuns, SmallRetries)
    \/ PlanCall(SmallPlans)
    \/ PlanRepairStep
    \/ PlanReturn
    \/ ExecAttempt
    \/ ExecStepEnd
    \/ ExecFinish
    \/ RunFinalize
    \/ RunExcept

SpecRuns == Init /\ [][NextRuns]_vars

(***************************************************************************)
(* AgentRunner._extract_content applied to the outputs a last step can hold *)
(***************************************************************************)
AnswerValues == {Absent, NoneStr, "", "4"}
MessageValues == {Absent, "", "done"}
BodyValues == {Absent, NoneStr, "", "text", "<dict>", "<int>"}
Outputs ==
    {NoneV, StrV(""), StrV("hello"), ListV, ObjV}
        \cup {DictV(a, m, b) : a \in AnswerValues, m \in MessageValues, b \in BodyValues}

Pending == [kind |-> "pending", s |-> ""]

InitExtract ==
    /\ InitCall
    /\ val = ValIdle
    /\ mem = MemInit
    /\ toolreg = ToolRegInit
    /\ clients = NoClients
    /\ response = NoResponse
    /\ llm = <<>>
    /\ \E o \in Outputs : probe = [pc |-> "ready", output |-> o, content |-> Pending]

ExtractContent ==
    /\ probe.pc = "ready"
    /\ probe' = [probe EXCEPT !.pc = "done",
                              !.content = extract_content([output |-> probe.output])]
    /\ UNCHANGED <<regVars, contexts, pc, callVars, execVars, exc, outcome,
                   exec_status, histVars, val, studyVars>>

NextExtract == ExtractContent

SpecExtract == InitExtract /\ [][NextExtract]_vars

(***************************************************************************)
(* ToolInputValidator.validate_and_repair, step by step, for any            *)
(* max_attempts                                                            *)
(***************************************************************************)
\* values a required field can hold in a candidate input
FieldValues == {"<None>", "", " ", "<emptylist>", "<emptydict>", "<int>"}
FieldsOf(tool) == {required_fields(tool)[i] : i \in 1..Len(required_fields(tool))}
Candidates(tool) ==
    UNION {{g \in [F -> FieldValues \cup {FullInput[f] : f \in F}] :
                \A f \in F : g[f] \in FieldValues \cup {FullInput[f]}} :
           F \in SUBSET FieldsOf(tool)}

\* what the language model answers to a repair request: text that does not
\* parse, a JSON array, a JSON object
Reply(kind, input) == [kind |-> kind, input |-> input]
Replies(tool) ==
    {Reply("garbage", EmptyInput), Reply("array", EmptyInput)}
        \cup {Reply("object", i) : i \in Candidates(tool)}

\* the loop gives up once the last allowed attempt has been validated
\* (validator.py 53-54)
budget_spent_late(attempt, m) == attempt > m
budget_spent(attempt, m) == attempt >= m

\* validate_and_repair is entered (validator.py 32-38)
ValidateCall ==
    /\ val.pc = "idle"
    /\ \E tool \in ToolNames, m \in 0..MaxAttemptsBound :
          \E input \in Candidates(tool) :
             val' = [pc |-> IF registry_get(tool) = NoneStr THEN "raised" ELSE "collect",
                     tool |-> tool, input |-> input, checked |-> EmptyInput,
                     attempt |-> 0, max_attempts |-> m, errors |-> <<>>,
                     llm_calls |-> 0, validations |-> 0, replies |-> <<>>,
                     msg |-> IF registry_get(tool) = NoneStr
                             THEN ToolNotFoundMsg(tool) ELSE ""]
    /\ UNCHANGED <<regVars, contexts, pc, callVars, execVars, exc, outcome,
                   exec_status, histVars, probe, studyVars>>

\* the head of the loop: _collect_errors, return, or give up (validator.py 40-54)
ValCollect ==
    /\ val.pc = "collect"
    /\ LET errors == collect_errors(val.tool, val.input)
       IN  val' = [val EXCEPT
                     !.errors = errors,
                     !.checked = val.input,
                     !.validations = @ + 1,
                     !.pc = IF errors = <<>> THEN "returned"
                            ELSE IF budget_spent(val.attempt, val.max_attempts)
                            THEN "raised" ELSE "repair",
                     !.msg = IF errors # <<>> /\ budget_spent(val.attempt, val.max_attempts)
                             THEN RepairExhaustedMsg(val.tool, errors) ELSE @]
    /\ UNCHANGED <<regVars, contexts, pc, callVars, execVars, exc, outcome,
                   exec_status, histVars, probe, studyVars>>

\* the repair response is not a JSON object: the loop is left (validator.py 64-71)
ReplyRejected_retried(kind) ==
    val' = [val EXCEPT !.llm_calls = @ + 1, !.replies = Append(@, kind),
                       !.attempt = @ + 1, !.pc = "collect"]
ReplyRejected(kind) ==
    val' = [val EXCEPT !.llm_calls = @ + 1, !.replies = Append(@, kind),
                       !.pc = "raised",
                       !.msg = RepairExhaustedMsg(val.tool, val.errors)]

\* _repair_with_llm and the tail of the loop (validator.py 56-67, 128-139)
ValRepair ==
    /\ val.pc = "repair"
    /\ \/ val' = [val EXCEPT !.llm_calls = @ + 1, !.replies = Append(@, "fault"),
                             !.pc = "raised", !.msg = LlmErrorMsg]
       \/ \E r \in Replies(val.tool) :
             IF r.kind # "object"
             THEN ReplyRejected(r.kind)
             ELSE val' = [val EXCEPT !.llm_calls = @ + 1,
                                     !.replies = Append(@, "object"),
                                     !.input = r.input,
                                     !.attempt = @ + 1,
                                     !.pc = "collect"]
    /\ UNCHANGED <<regVars, contexts, pc, callVars, execVars, exc, outcome,
                   exec_status, histVars, probe, studyVars>>

NextRepair ==
    \/ InitializeTools
    \/ \E t \in RegisterableTools : Register(t)
    \/ ValidateCall
    \/ ValCollect
    \/ ValRepair

SpecRepair == Init /\ [][NextRepair]_vars

(***************************************************************************)
(* PlannerAgent.plan inside AgentRunner.run, for plans that also name the   *)
(* memory tool                                                             *)
(***************************************************************************)
\* a memory input whose action is not a string and whose key is missing
PartialInput == [f \in {"action"} |-> "<int>"]
PlannerShapes ==
    StepShapes({EmptyInput, BadInput})
        \cup [tool_name : {"memory"}, input_data : {EmptyInput, BadInput, PartialInput}]
PlannerPlans ==
    {Numbered(q, n) : q \in SeqsUpTo(PlannerShapes, MaxSteps), n \in Numberings}

NextPlan ==
    \/ InitializeTools
    \/ \E t \in RegisterableTools : Register(t)
    \/ RunStart(1, SmallRetries)
    \/ PlanCall(PlannerPlans)
    \/ PlanRepairStep
    \/ PlanReturn

SpecPlan == Init /\ [][NextPlan]_vars

(***************************************************************************)
(* MemoryTool.execute called by interleaved runs on the class-level store   *)
(***************************************************************************)
MemRuns == 1..MaxRuns
MemKeys == {"k1", "k2"}
MemValues == {"v1", "v2"}
\* keyword arguments of a call: store, retrieve, an action the tool does not
\* know, and a call without the required key
MemoryInputs ==
    [action : {"store", "STORE"}, key : MemKeys, value : MemValues]
        \cup [action : {"retrieve"}, key : MemKeys, value : {NoneStr}]
        \cup [action : {"delete"}, key : {"k1"}, value : {NoneStr}]
        \cup [action : {"store"}, key : {Absent}, value : {"v1"}]

\* MemoryToolInput(**kwargs): action and key are required strings
MemoryToolInput(kwargs) == kwargs.action # Absent /\ kwargs.key # Absent

StoredResult(key) == [kind |-> "stored", message |-> "Stored value at key '" \o key \o "'"]
RetrievedResult(key, value) == [kind |-> "retrieved", key |-> key, value |-> value]

\* the entry of _store a run addresses: _store is a class attribute, one dict
\* for every instance and every run
store_slot_per_run(run, key) == ToString(run) \o "/" \o key
store_slot(run, key) == key

\* self._store[key] = value
store_assign_keeps_first(store, slot, value) ==
    IF slot \in DOMAIN store THEN store ELSE Put(store, slot, value)
store_assign(store, slot, value) == Put(store, slot, value)

\* MemoryTool.execute: the store afterwards and the ToolOutput returned
memory_execute(store, run, kwargs) ==
    IF ~MemoryToolInput(kwargs)
    THEN [store |-> store,
          out |-> ToolOutput(FALSE, NoneV, "Memory operation failed: validation error")]
    ELSE LET action == lower(kwargs.action)
             slot == store_slot(run, kwargs.key)
         IN  IF action = "store"
             THEN [store |-> store_assign(store, slot, kwargs.value),
                   out |-> ToolOutput(TRUE, StoredResult(kwargs.key), NoneStr)]
             ELSE IF action = "retrieve"
             THEN IF slot \in DOMAIN store
                  THEN [store |-> store,
                        out |-> ToolOutput(TRUE, RetrievedResult(kwargs.key, store[slot]), NoneStr)]
                  ELSE [store |-> store,
                        out |-> ToolOutput(FALSE, NoneV,
                                           "Key '" \o kwargs.key \o "' not found in memory")]
             ELSE [store |-> store,
                   out |-> ToolOutput(FALSE, NoneV,
                               "Unknown action: " \o action \o ". Use 'store' or 'retrieve'.")]

\* a memory step of run `run` is executed; the calls of different runs
\* interleave in any order
MemoryExecute(run, kwargs) ==
    /\ Len(mem.log) < MaxMemOps
    /\ LET r == memory_execute(mem.store, run, kwargs)
       IN  mem' = [store |-> r.store,
                   log |-> Append(mem.log, [run |-> run, kwargs |-> kwargs, out |-> r.out])]
    /\ UNCHANGED <<regVars, contexts, pc, callVars, execVars, exc, outcome,
                   exec_status, histVars, val, probe, toolreg, clients, response, llm>>

NextMemory == \E run \in MemRuns, kwargs \in MemoryInputs : MemoryExecute(run, kwargs)

SpecMemory == Init /\ [][NextMemory]_vars

(***************************************************************************)
(* ToolRegistry with the identity of the registered objects: tools maps a   *)
(* name to the object registered under it                                   *)
(***************************************************************************)
\* objects a host passes to register; initialize_tools constructs its own
HostTools == {1, 2}
BuiltinTool == 0
LookupNames == ToolNames \cup {"unknown"}
ToolRef(inst) == "tool:" \o ToString(inst)

\* ToolRegistry.register: the mapping afterwards and whether ValueError is raised
registry_register_overwrites(tools, name, inst) ==
    [tools |-> Put(tools, name, inst), raised |-> FALSE]
registry_register(tools, name, inst) ==
    IF name \in DOMAIN tools
    THEN [tools |-> tools, raised |-> TRUE]
    ELSE [tools |-> Put(tools, name, inst), raised |-> FALSE]

\* one guarded registration of initialize_tools
register_if_missing(r, name) ==
    IF r.raised \/ name \in DOMAIN r.tools
    THEN r
    ELSE registry_register(r.tools, name, BuiltinTool)

RegisterTool(name, inst) ==
    /\ LET r == registry_register(toolreg.tools, name, inst)
       IN  toolreg' = [toolreg EXCEPT
               !.tools = r.tools,
               !.last = [op |-> "register", name |-> name, inst |-> inst,
                         result |-> IF r.raised THEN "raised" ELSE "ok"]]
    /\ UNCHANGED <<regVars, contexts, pc, callVars, execVars, exc, outcome,
                   exec_status, histVars, val, probe, mem, clients, response, llm>>

InitializeToolsCall ==
    /\ LET r == IF toolreg.initialized
                THEN [tools |-> toolreg.tools, raised |-> FALSE]
                ELSE register_if_missing(
                         register_if_missing([tools |-> toolreg.tools, raised |-> FALSE],
                                             "http"),
                         "memory")
       IN  toolreg' = [tools |-> r.tools,
                       initialized |-> toolreg.initialized \/ ~r.raised,
                       last |-> [op |-> "initialize", name |-> "", inst |-> BuiltinTool,
                                 result |-> IF r.raised THEN "raised" ELSE "ok"]]
    /\ UNCHANGED <<regVars, contexts, pc, callVars, execVars, exc, outcome,
                   exec_status, histVars, val, probe, mem, clients, response, llm>>

GetTool(name) ==
    /\ toolreg' = [toolreg EXCEPT
           !.last = [op |-> "get", name |-> name, inst |-> 0,
                     result |-> IF name \in DOMAIN toolreg.tools
                                THEN ToolRef(toolreg.tools[name]) ELSE NoneStr]]
    /\ UNCHANGED <<regVars, contexts, pc, callVars, execVars, exc, outcome,
                   exec_status, histVars, val, probe, mem, clients, response, llm>>

NextRegistry ==
    \/ \E name \in ToolNames, inst \in HostTools : RegisterTool(name, inst)
    \/ InitializeToolsCall
    \/ \E name \in LookupNames : GetTool(name)

SpecRegistry == Init /\ [][NextRegistry]_vars

(***************************************************************************)
(* MemoryStore used by runs side by side: clients.runs[r] is the position   *)
(* of run r and the execution_id of the context object it holds; the object *)
(* itself is contexts[id], shared between the run and the store             *)
(***************************************************************************)
\* MemoryStore.save_context: self._contexts[context.execution_id] = context
save_context_single_slot(store, context) == [i \in {context.execution_id} |-> context]
save_context(store, context) == Put(store, context.execution_id, context)

\* MemoryStore.get_context: self._contexts.get(execution_id)
get_context(store, execution_id) ==
    IF execution_id \in DOMAIN store
    THEN [asked |-> execution_id, found |-> TRUE,
          execution_id |-> store[execution_id].execution_id,
          goal |-> store[execution_id].goal]
    ELSE [asked |-> execution_id, found |-> FALSE, execution_id |-> 0, goal |-> ""]

StoreCreate(r, goal) ==
    /\ clients.runs[r].pc = "new"
    /\ \E id \in uuid4 :
          /\ contexts' = create_execution_context(id, goal)
          /\ issued' = Append(issued, id)
          /\ clients' = [clients EXCEPT !.runs[r] =
                             [pc |-> "live", id |-> id, goal |-> goal, status |-> "running"]]
    /\ UNCHANGED <<regVars, cur, pc, mode, call_registry, execVars, exc, outcome,
                   exec_status, histVars, val, probe, mem, toolreg, response, llm>>

\* the run completes or fails the context object it holds
StoreFinish(r, status) ==
    /\ clients.runs[r].pc = "live"
    /\ contexts' = [contexts EXCEPT ![clients.runs[r].id] =
                        IF status = "completed" THEN complete(@, NoneV)
                        ELSE fail(@, "Agent run failed: tool crashed")]
    /\ clients' = [clients EXCEPT !.runs[r].pc = "ended", !.runs[r].status = status]
    /\ UNCHANGED <<regVars, callVars, pc, execVars, exc, outcome,
                   exec_status, histVars, val, probe, mem, toolreg, response, llm>>

StoreSave(r) ==
    /\ clients.runs[r].pc = "ended"
    /\ contexts' = save_context(contexts, contexts[clients.runs[r].id])
    /\ clients' = [clients EXCEPT !.runs[r].pc = "saved"]
    /\ UNCHANGED <<regVars, callVars, pc, execVars, exc, outcome,
                   exec_status, histVars, val, probe, mem, toolreg, response, llm>>

StoreGet(id) ==
    /\ clients' = [clients EXCEPT !.got = get_context(contexts, id)]
    /\ UNCHANGED <<regVars, contexts, callVars, pc, execVars, exc, outcome,
                   exec_status, histVars, val, probe, mem, toolreg, response, llm>>

NextStore ==
    \/ \E r \in StoreRuns, goal \in Goals : StoreCreate(r, goal)
    \/ \E r \in StoreRuns, status \in {"completed", "failed"} : StoreFinish(r, status)
    \/ \E r \in StoreRuns : StoreSave(r)
    \/ \E id \in Ids : StoreGet(id)

SpecStore == Init /\ [][NextStore]_vars

(***************************************************************************)
(* The /execute endpoint: AgentRunner.run followed by the conversion of the *)
(* returned context into an ExecuteResponse                                 *)
(***************************************************************************)
\* the fields StepResult requires (request_response.py 43-51): input and
\* error have defaults
StepResultRequired == {"step_number", "description", "tool_name", "success", "output"}
StepResultValid(kwargs) == StepResultRequired \subseteq DOMAIN kwargs

\* the keyword arguments the endpoint builds for one record (routes.py 54-60)
step_result_kwargs(step) ==
    [step_number |-> step.step_number, tool_name |-> step.tool_name,
     success |-> step.success, output |-> step.output, error |-> step.error]

HttpError(detail) ==
    [kind |-> "http_error", status_code |-> 500, detail |-> detail,
     steps_completed |-> <<>>, intent |-> NoneStr, execution_summary |-> NoneV]

\* ExecuteResponse(...) of routes.py 65-73: intent and execution_summary are
\* not passed and keep their default None
ExecuteResponse(c, steps_result) ==
    [kind |-> "response", status_code |-> 200, detail |-> "",
     steps_completed |-> steps_result, intent |-> NoneStr, execution_summary |-> NoneV]

\* the rest of execute_goal after runner.run has ended (routes.py 52-85)
execute_goal_respond(c, run_outcome, run_exc) ==
    IF run_outcome = "raised"
    THEN HttpError("Execution failed: " \o run_exc)
    ELSE LET kwargs == [i \in 1..Len(c.executed_steps) |->
                            step_result_kwargs(c.executed_steps[i])]
         IN  IF \E i \in 1..Len(kwargs) : ~StepResultValid(kwargs[i])
             THEN HttpError("Configuration error: 1 validation error for StepResult")
             ELSE ExecuteResponse(c, kwargs)

ExecuteGoalRespond ==
    /\ pc = "done" /\ mode = "run"
    /\ response = NoResponse
    /\ response' = execute_goal_respond(Ctx, outcome, exc)
    /\ UNCHANGED <<regVars, contexts, pc, callVars, execVars, exc, outcome,
                   exec_status, histVars, val, probe, mem, toolreg, clients, llm>>

NextEndpoint ==
    \/ InitializeTools
    \/ \E t \in RegisterableTools : Register(t)
    \/ RunStart(1, SmallRetries)
    \/ PlanCall(Plans)
    \/ PlanRepairStep
    \/ PlanReturn
    \/ ExecAttempt
    \/ ExecStepEnd
    \/ ExecFinish
    \/ RunFinalize
    \/ RunExcept
    \/ ExecuteGoalRespond

SpecEndpoint == Init /\ [][NextEndpoint]_vars

(***************************************************************************)
(* PlannerAgent._infer_memory_key, character by character.  A text is a     *)
(* sequence of characters; "<U+0130>" is the capital dotted I, whose        *)
(* str.lower() is the two code points "i" and "<U+0307>" (combining dot).   *)
(***************************************************************************)
KeyLimit == 40
GoalChars == {"a", "B", "2", " ", "!", "_", "<U+0130>"}
\* str.isalnum and str.lower for one character
isalnum(c) == c \in {"a", "b", "i", "B", "2", "<U+0130>"}
char_lower(c) ==
    CASE c = "B" -> <<"b">>
      [] c = "<U+0130>" -> <<"i", "<U+0307>">>
      [] OTHER -> <<c>>

RECURSIVE Repeat(_, _)
Repeat(c, n) == IF n = 0 THEN <<>> ELSE Append(Repeat(c, n - 1), c)

\* short goals of any shape, and goals long enough for the key to be cut
ShortGoals == SeqsUpTo(GoalChars, MaxGoalLen)
LongGoals == {Repeat("a", n) \o t : n \in (KeyLimit - 2)..(KeyLimit + 1),
                                    t \in SeqsUpTo({"a", " ", "B"}, 2)}
KeyGoals == ShortGoals \cup LongGoals

\* "".join(char.lower() if char.isalnum() else "_" for char in goal)
RECURSIVE lower_or_underscore(_)
lower_or_underscore(goal) ==
    IF goal = <<>> THEN <<>>
    ELSE (IF isalnum(Head(goal)) THEN char_lower(Head(goal)) ELSE <<"_">>)
             \o lower_or_underscore(Tail(goal))

\* str.split("_"): the pieces between the separators, empty ones included
RECURSIVE split_underscore(_)
split_underscore(text) ==
    IF \A i \in 1..Len(text) : text[i] # "_"
    THEN <<text>>
    ELSE LET k == CHOOSE i \in 1..Len(text) :
                      text[i] = "_" /\ \A j \in 1..(i - 1) : text[j] # "_"
         IN  <<SubSeq(text, 1, k - 1)>> \o split_underscore(SubSeq(text, k + 1, Len(text)))

\* "_".join(pieces)
RECURSIVE join_underscore(_)
join_underscore(pieces) ==
    IF pieces = <<>> THEN <<>>
    ELSE IF Len(pieces) = 1 THEN pieces[1]
    ELSE pieces[1] \o <<"_">> \o join_underscore(Tail(pieces))

ResultKey == <<"r", "e", "s", "u", "l", "t">>

infer_memory_key_chars(goal) ==
    LET cleaned == join_underscore(SelectSeq(split_underscore(lower_or_underscore(goal)),
                                             LAMBDA piece : piece # <<>>))
        cut == SubSeq(cleaned, 1, IF Len(cleaned) < KeyLimit THEN Len(cleaned) ELSE KeyLimit)
    IN  IF cut = <<>> THEN ResultKey ELSE cut

InitKey ==
    /\ InitCall
    /\ val = ValIdle
    /\ mem = MemInit
    /\ toolreg = ToolRegInit
    /\ clients = NoClients
    /\ response = NoResponse
    /\ llm = <<>>
    /\ \E g \in KeyGoals : probe = [pc |-> "key_ready", goal |-> g, key |-> <<>>]

InferMemoryKey ==
    /\ probe.pc = "key_ready"
    /\ probe' = [probe EXCEPT !.pc = "key_done", !.key = infer_memory_key_chars(probe.goal)]
    /\ UNCHANGED <<regVars, contexts, pc, callVars, execVars, exc, outcome,
                   exec_status, histVars, val, studyVars>>

NextKey == InferMemoryKey

SpecKey == InitKey /\ [][NextKey]_vars

(***************************************************************************)
(* AgentRunner.run with the language-model calls of PlannerAgent.plan       *)
(* written to llm: the planning call and the repair calls of each step      *)
(***************************************************************************)
LlmCall(purpose, pos) == [purpose |-> purpose, pos |-> pos]
CostRetries == {2}

\* the planning call and the parsing of its answer (planner.py 53-58)
PlanLlmCall_twice(plans) ==
    /\ pc = "plan"
    /\ llm' = llm \o <<LlmCall("plan", 0), LlmCall("plan", 0)>>
    /\ \/ /\ exc' = LlmErrorMsg
          /\ pc' = "except"
          /\ UNCHANGED steps
       \/ /\ exc' = PlanParseErrorMsg
          /\ pc' = "except"
          /\ UNCHANGED steps
       \/ \E p \in plans :
             /\ steps' = p
             /\ pc' = "repair"
             /\ UNCHANGED exc
    /\ UNCHANGED <<regVars, contexts, callVars, max_retries, idx, success,
                   retry_count, last_error, outcome, exec_status, histVars,
                   val, probe, mem, toolreg, clients, response>>
PlanLlmCall(plans) ==
    /\ pc = "plan"
    /\ llm' = Append(llm, LlmCall("plan", 0))
    /\ \/ /\ exc' = LlmErrorMsg
          /\ pc' = "except"
          /\ UNCHANGED steps
       \/ /\ exc' = PlanParseErrorMsg
          /\ pc' = "except"
          /\ UNCHANGED steps
       \/ \E p \in plans :
             /\ steps' = p
             /\ pc' = "repair"
             /\ UNCHANGED exc
    /\ UNCHANGED <<regVars, contexts, callVars, max_retries, idx, success,
                   retry_count, last_error, outcome, exec_status, histVars,
                   val, probe, mem, toolreg, clients, response>>

\* one iteration of the loop of _validate_and_repair_steps with the repair
\* calls validate_and_repair makes for the step (planner.py 241-255,
\* validator.py 40-67)
PlanRepairCalls ==
    /\ pc = "repair"
    /\ idx <= Len(steps)
    /\ LET step == steps[idx]
           tool_name == lower(step.tool_name)
       IN  IF registry_get(tool_name) = NoneStr
           THEN /\ idx' = idx + 1
                /\ UNCHANGED <<steps, pc, exc, llm>>
           ELSE \E r \in validate_and_repair(
                           tool_name, repair_tool_input(Ctx.goal, tool_name, step.input_data),
                           0, 0) :
                   /\ llm' = llm \o Repeat(LlmCall("repair", idx), r.calls)
                   /\ IF r.kind = "ok"
                      THEN /\ steps' = [steps EXCEPT ![idx].input_data = r.input]
                           /\ idx' = idx + 1
                           /\ UNCHANGED <<pc, exc>>
                      ELSE /\ exc' = r.msg
                           /\ pc' = "except"
                           /\ UNCHANGED <<steps, idx>>
    /\ UNCHANGED <<regVars, contexts, callVars, max_retries, success,
                   retry_count, last_error, outcome, exec_status, histVars,
                   val, probe, mem, toolreg, clients, response>>

NextCost ==
    \/ InitializeTools
    \/ \E t \in RegisterableTools : Register(t)
    \/ RunStart(1, CostRetries)
    \/ PlanLlmCall(Plans)
    \/ PlanRepairCalls
    \/ PlanReturn
    \/ ExecAttempt
    \/ ExecStepEnd
    \/ ExecFinish
    \/ RunFinalize
    \/ RunExcept

SpecCost == Init /\ [][NextCost]_vars

(***************************************************************************)
(* GroqClient.parse_json and PlannerAgent._parse_plan on texts.  A text is  *)
(* a sequence of pieces: the JSON punctuation, the double quote, the digit  *)
(* 1, and the letter runs "x" and "steps", which stand in prose and inside  *)
(* strings.  A slice that starts at a bracket and ends inside a letter run  *)
(* ends inside prose or inside a string and never parses, so slicing by     *)
(* piece loses no slice that json.loads accepts.                            *)
(***************************************************************************)
JsonChars == {"{", "}", "[", "]", ",", ":", "\"", "1", "x", "steps"}
StepsKey == <<"steps">>

\* a decoded value: a number or a string (text), a list (items), a dict
\* (members: the set of <<key, value>> pairs, one per key)
JsonV(kind, text, items, members) ==
    [kind |-> kind, text |-> text, items |-> items, members |-> members]
JsonNone == JsonV("none", <<>>, <<>>, {})
JsonList(items) == JsonV("list", <<>>, items, {})
JsonDict(members) == JsonV("dict", <<>>, <<>>, members)
\* the scanner at a position: a value and the position after it, or an error
ScanError == [ok |-> FALSE, val |-> JsonNone, next |-> 0]
Scanned(v, n) == [ok |-> TRUE, val |-> v, next |-> n]

\* position of the closing quote of a string whose content starts at i (0: none)
string_end(s, i) ==
    IF \E j \in i..Len(s) : s[j] = "\""
    THEN CHOOSE j \in i..Len(s) : s[j] = "\"" /\ \A k \in i..(j - 1) : s[k] # "\""
    ELSE 0
\* position of the last digit of the number that starts at i
number_end(s, i) ==
    CHOOSE j \in i..Len(s) :
        /\ \A k \in i..j : s[k] = "1"
        /\ j = Len(s) \/ s[j + 1] # "1"

\* Body at the value v, with v worked out once
With(v, Body(_)) == CHOOSE out \in {Body(x) : x \in {v}} : TRUE

\* json.decoder: scan_once, JSONArray after '[' and JSONObject after '{'
RECURSIVE scan_once(_, _), scan_array(_, _, _), scan_object(_, _, _)
scan_once(s, i) ==
    IF i > Len(s) THEN ScanError
    ELSE CASE s[i] = "\"" ->
                 LET e == string_end(s, i + 1)
                 IN  IF e = 0 THEN ScanError
                     ELSE Scanned(JsonV("str", SubSeq(s, i + 1, e - 1), <<>>, {}), e + 1)
           [] s[i] = "1" ->
                 LET e == number_end(s, i)
                 IN  Scanned(JsonV("int", SubSeq(s, i, e), <<>>, {}), e + 1)
           [] s[i] = "[" ->
                 IF i < Len(s) /\ s[i + 1] = "]"
                 THEN Scanned(JsonList(<<>>), i + 2)
                 ELSE scan_array(s, i + 1, <<>>)
           [] s[i] = "{" ->
                 IF i < Len(s) /\ s[i + 1] = "}"
                 THEN Scanned(JsonDict({}), i + 2)
                 ELSE scan_object(s, i + 1, {})
           [] OTHER -> ScanError
\* a value is expected at i; then ']' ends the list and ',' continues it
scan_array(s, i, items) ==
    With(scan_once(s, i), LAMBDA r :
        IF ~r.ok \/ r.next > Len(s) THEN ScanError
        ELSE IF s[r.next] = "]" THEN Scanned(JsonList(Append(items, r.val)), r.next + 1)
        ELSE IF s[r.next] = "," THEN scan_array(s, r.next + 1, Append(items, r.val))
        ELSE ScanError)
\* a quoted key is expected at i, then ':' and a value; then '}' ends the
\* dict and ',' continues it; a repeated key keeps its last value
scan_object(s, i, members) ==
    IF i > Len(s) \/ s[i] # "\"" THEN ScanError
    ELSE LET e == string_end(s, i + 1)
         IN  IF e = 0 \/ e + 1 > Len(s) \/ s[e + 1] # ":" THEN ScanError
             ELSE With(scan_once(s, e + 2), LAMBDA r :
                      LET key == SubSeq(s, i + 1, e - 1)
                          m == {p \in members : p[1] # key} \cup {<<key, r.val>>}
                      IN  IF ~r.ok \/ r.next > Len(s) THEN ScanError
                          ELSE IF s[r.next] = "}" THEN Scanned(JsonDict(m), r.next + 1)
                          ELSE IF s[r.next] = "," THEN scan_object(s, r.next + 1, m)
                          ELSE ScanError)

\* json.loads: one value and nothing after it, or JSONDecodeError
JSONDecodeError == [ok |-> FALSE, val |-> JsonNone]
loads(s) ==
    With(s, LAMBDA t :
        With(scan_once(t, 1), LAMBDA r :
            IF r.ok /\ r.next = Len(t) + 1 THEN [ok |-> TRUE, val |-> r.val]
            ELSE JSONDecodeError))

\* str.find: the first position of the character (0: not found)
find(text, ch) ==
    IF \E i \in 1..Len(text) : text[i] = ch
    THEN CHOOSE i \in 1..Len(text) : text[i] = ch /\ \A j \in 1..(i - 1) : text[j] # ch
    ELSE 0

\* the inner loop of parse_json: end_idx from len(text) down to start_idx + 1,
\* the first slice text[start_idx:end_idx] that parses
first_parsing_slice(text, start_idx) ==
    With({e \in start_idx..Len(text) : loads(SubSeq(text, start_idx, e)).ok}, LAMBDA ends :
        IF ends = {} THEN JSONDecodeError
        ELSE loads(SubSeq(text, start_idx, CHOOSE e \in ends : \A d \in ends : d <= e)))

\* the outer loop of parse_json: the start characters in the order of the list
StartChars == <<"{", "[">>
RECURSIVE recover(_, _)
recover(text, start_chars) ==
    IF start_chars = <<>> THEN JSONDecodeError
    ELSE LET start_idx == find(text, Head(start_chars))
         IN  With(IF start_idx = 0 THEN JSONDecodeError
                  ELSE first_parsing_slice(text, start_idx), LAMBDA found :
                 IF found.ok THEN found ELSE recover(text, Tail(start_chars)))

\* ok = FALSE: ValueError("Could not parse JSON from: ...")
parse_json(text) ==
    With(loads(text), LAMBDA direct :
        IF direct.ok THEN direct ELSE recover(text, StartChars))

\* dict.get
dict_get(d, key, default) ==
    IF \E p \in d.members : p[1] = key
    THEN (CHOOSE p \in d.members : p[1] = key)[2]
    ELSE default

\* the ExecutionStep built from a step dict at list position i; the keys the
\* texts can spell are none of step_number, description, tool_name,
\* input_data and reasoning, so every field takes its default
ParsedStep(i) == [step_number |-> i, tool_name |-> "", input_data |-> EmptyInput]
PlanParsed(n) == [kind |-> "steps", steps |-> [i \in 1..n |-> ParsedStep(i)], msg |-> ""]
PlanParseError == [kind |-> "ValueError", steps |-> <<>>, msg |-> PlanParseErrorMsg]

\* _parse_plan.  Iterating an int raises TypeError; an element that is not
\* a dict (a list item, a character of a string, a key of a dict) has no
\* .get and raises AttributeError; both leave as ValueError.
parse_plan(plan_text) ==
    With(parse_json(plan_text), LAMBDA parsed :
        LET plan_data == IF parsed.val.kind = "dict"
                         THEN dict_get(parsed.val, StepsKey, JsonList(<<>>))
                         ELSE parsed.val
            raises ==
                CASE plan_data.kind = "int" -> TRUE
                  [] plan_data.kind = "str" -> plan_data.text # <<>>
                  [] plan_data.kind = "dict" -> plan_data.members # {}
                  [] OTHER -> \E i \in 1..Len(plan_data.items) :
                                  plan_data.items[i].kind # "dict"
        IN  IF ~parsed.ok \/ raises THEN PlanParseError
            ELSE PlanParsed(Len(plan_data.items)))

\* texts of any shape up to MaxTextLen pieces, and answers of a language
\* model: a list of step objects, bare or under "steps", alone or in prose
ShortTexts == SeqsUpTo(JsonChars, MaxTextLen)
StepObject == <<"{", "\"", "x", "\"", ":", "1", "}">>
RECURSIVE StepObjects(_)
StepObjects(n) ==
    IF n = 0 THEN <<>>
    ELSE IF n = 1 THEN StepObject
    ELSE StepObjects(n - 1) \o <<",">> \o StepObject
StepArray(n) == <<"[">> \o StepObjects(n) \o <<"]">>
StepsDict(n) == <<"{", "\"", "steps", "\"", ":">> \o StepArray(n) \o <<"}">>
Prose == {<<>>, <<"x">>}
Wrapped(body) == {before \o body \o after : before \in Prose, after \in Prose}
PlanTexts ==
    UNION {Wrapped(StepArray(n)) \cup Wrapped(StepsDict(n)) : n \in 0..MaxSteps}
JsonTexts == ShortTexts \cup PlanTexts

NotParsed == [ok |-> FALSE, val |-> JsonNone]
InitJson ==
    /\ InitCall
    /\ val = ValIdle
    /\ mem = MemInit
    /\ toolreg = ToolRegInit
    /\ clients = NoClients
    /\ response = NoResponse
    /\ llm = <<>>
    /\ \E t \in JsonTexts :
          probe = [pc |-> "json_ready", text |-> t, parsed |-> NotParsed,
                   plan |-> PlanParseError]

\* _parse_plan called with the text; parsed is what its parse_json call gave
ParsePlan ==
    /\ probe.pc = "json_ready"
    /\ probe' = [probe EXCEPT !.pc = "json_done",
                              !.parsed = parse_json(probe.text),
                              !.plan = parse_plan(probe.text)]
    /\ UNCHANGED <<regVars, contexts, pc, callVars, execVars, exc, outcome,
                   exec_status, histVars, val, studyVars>>

NextJson == ParsePlan

SpecJson == InitJson /\ [][NextJson]_vars

(***************************************************************************)
(* Reading the history of a call                                           *)
(***************************************************************************)
Started == cur # 0
Positions == 1..Len(steps)
EventsAt(ev, pos) == {i \in 1..Len(events) : events[i].ev = ev /\ events[i].pos = pos}
Count(ev, pos) == Cardinality(EventsAt(ev, pos))
Invoked(pos) == EventsAt("invoke", pos)
ReturnsAt(pos) == {i \in 1..Len(returns) : returns[i].pos = pos}
Max0(n) == IF n < 0 THEN 0 ELSE n

Registered(pos) == lower(steps[pos].tool_name) \in call_registry
ValidInput(pos) == model_validate(lower(steps[pos].tool_name), steps[pos].input_data)

\* the Executor has stopped, and it stopped while working on position pos
ExecutorEnded == exec_status \in {"returned", "raised"}
EndedAt(pos) == exec_status = "returned" /\ idx = pos

\* every call of the tool of position pos reported success=false
AlwaysFails(pos) ==
    /\ Registered(pos) /\ ValidInput(pos)
    /\ \A i \in Invoked(pos) : events[i].res = "returned"
    /\ \A i \in ReturnsAt(pos) : ~returns[i].out.success

NoEventsAfter(pos) == \A i \in 1..Len(events) : events[i].pos <= pos
Successes(recs) == {i \in 1..Len(recs) : recs[i].success}
Failures(recs) == {i \in 1..Len(recs) : ~recs[i].success}

(***************************************************************************)
(* Retry loop of the Executor                                              *)
(***************************************************************************)
\* C1: a step whose tool is registered, whose input passes the structural
\* check and whose tool reports success=false on every call is invoked at
\* most max_retries times, and when the Executor stops on it the tool has
\* been invoked exactly max_retries times and the context is failed with the
\* message "Step <step_number> failed after <max_retries> attempts: ...".
RetryCeiling ==
    (Started /\ max_retries >= 0) =>
        \A p \in Positions :
            AlwaysFails(p) =>
                /\ Cardinality(Invoked(p)) <= max_retries
                /\ EndedAt(p) =>
                      /\ Cardinality(Invoked(p)) = max_retries
                      /\ Ctx.status = "failed"
                      /\ Ctx.error = "Step " \o ToString(steps[p].step_number)
                                       \o " failed after " \o ToString(max_retries)
                                       \o " attempts: "
                                       \o (IF max_retries = 0
                                           THEN "No error details were provided"
                                           ELSE "tool error")

RetryCeilingReached ==
    /\ Started /\ max_retries >= 2
    /\ \E p \in Positions :
          /\ p = Len(steps) /\ p >= 2
          /\ AlwaysFails(p) /\ EndedAt(p)
          /\ Cardinality(Invoked(p)) = max_retries
          /\ Ctx.status = "failed"

\* C2: a step naming a tool absent from the registry fails the run at once:
\* the lookup is performed once, no retry attempt is consumed, the context is
\* failed with an error naming the tool and no later step is processed.
MissingToolNotRetried ==
    Started =>
        \A p \in Positions :
            (~Registered(p) /\ Count("lookup", p) >= 1) =>
                /\ Count("lookup", p) = 1
                /\ EndedAt(p) =>
                      /\ retry_count = 0
                      /\ Ctx.status = "failed"
                      /\ \E m \in RetryValues :
                            Ctx.error \in
                                {ToolNotFoundMsg(steps[p].tool_name),
                                 StepFailedMsg(steps[p].step_number, m,
                                               ToolNotFoundMsg(steps[p].tool_name))}
                      /\ NoEventsAfter(p)

\* C3 as stated: executed_steps never holds more records than the step list
\* has steps.
RecordsAtMostSteps ==
    Started => Len(Ctx.executed_steps) <= Len(steps)

\* C3 as amended: executed_steps holds at most max_retries records per step
\* (none when max_retries <= 0), so at most len(steps) * max_retries records,
\* and at most one successful record per step.
RecordsAtMostAttempts ==
    Started =>
        /\ Len(Ctx.executed_steps) <= Len(steps) * Max0(max_retries)
        /\ Cardinality(Successes(Ctx.executed_steps)) <= Len(steps)
        /\ \A p \in Positions :
              /\ Cardinality(ReturnsAt(p)) <= Max0(max_retries)
              /\ Cardinality({i \in ReturnsAt(p) : returns[i].out.success}) <= 1

MoreRecordsThanSteps ==
    /\ Started
    /\ Len(steps) = 2
    /\ Len(Ctx.executed_steps) = 4
    /\ ExecutorEnded

\* C4: executed_steps is exactly the sequence of the ToolOutputs returned,
\* one record per returned invocation in invocation order, whether successful
\* or not; a raising invocation, a failed lookup and a failed structural check
\* add none; a record once appended is never modified or removed.
RecordOf(r) ==
    [step_number |-> steps[r.pos].step_number,
     tool_name |-> lower(steps[r.pos].tool_name),
     input_data |-> steps[r.pos].input_data,
     output |-> r.out.result,
     success |-> r.out.success,
     error |-> r.out.error]

RecordsMatchReturns ==
    Started =>
        /\ Len(Ctx.executed_steps) = Len(returns)
        /\ \A i \in 1..Len(returns) : Ctx.executed_steps[i] = RecordOf(returns[i])
        /\ Len(returns) =
              Cardinality({i \in 1..Len(events) :
                              events[i].ev = "invoke" /\ events[i].res = "returned"})

RecordsOnlyGrow ==
    (cur # 0 /\ cur' = cur) =>
        /\ Len(contexts'[cur].executed_steps) >= Len(contexts[cur].executed_steps)
        /\ SubSeq(contexts'[cur].executed_steps, 1, Len(contexts[cur].executed_steps))
              = contexts[cur].executed_steps

RecordPerReturnedCall == []RecordsMatchReturns /\ [][RecordsOnlyGrow]_vars

RecordsBesideRaise ==
    /\ Started /\ ExecutorEnded
    /\ Len(Ctx.executed_steps) = 3
    /\ ~Ctx.executed_steps[1].success
    /\ Ctx.executed_steps[2].success
    /\ \E i \in 1..Len(events) : events[i].res = "raised"

\* C5: when a step exhausts max_retries without success the context is failed
\* with the message "Step <step_number> failed after <max_retries> attempts:
\* <last error>", and nothing is looked up, checked or invoked for any later
\* step of the list.
Exhausted(p) ==
    /\ exec_status # "not_called"
    /\ p <= idx
    /\ Count("lookup", p) >= max_retries
    /\ \A i \in EventsAt("validate", p) : events[i].res = "valid"
    /\ \A i \in ReturnsAt(p) : ~returns[i].out.success

LastErrorAt(p) ==
    LET here == {i \in 1..Len(events) : events[i].pos = p}
        last == CHOOSE i \in here : \A j \in here : j <= i
    IN  IF here = {} THEN {"No error details were provided"}
        ELSE IF events[last].res = "missing"
        THEN {"Tool '" \o steps[p].tool_name \o "' not found in registry"}
        ELSE IF events[last].res = "raised" THEN ToolRaises
        ELSE LET r == returns[CHOOSE i \in ReturnsAt(p) : \A j \in ReturnsAt(p) : j <= i]
             IN  {r.out.error}

ExhaustionStops ==
    Started =>
        \A p \in Positions :
            Exhausted(p) =>
                /\ idx = p
                /\ NoEventsAfter(p)
                /\ exec_status # "raised"
                /\ exec_status = "returned" =>
                      /\ Ctx.status = "failed"
                      /\ \E d \in LastErrorAt(p) :
                            Ctx.error = "Step " \o ToString(steps[p].step_number)
                                          \o " failed after " \o ToString(max_retries)
                                          \o " attempts: " \o d

ExhaustedBeforeLastStep ==
    /\ Started /\ max_retries >= 2
    /\ Len(steps) >= 2
    /\ Exhausted(1) /\ exec_status = "returned"
    /\ Cardinality(Invoked(1)) = max_retries
    /\ \E i \in Invoked(1) : events[i].res = "raised"
    /\ Ctx.status = "failed"

\* C6: when the structural check of the Executor rejects a step's input the
\* run fails at once: one lookup and one check for the step, no invocation, no
\* record, no retry, the context failed with "Invalid tool input for
\* '<tool>': ...", and nothing is done for any later step.
StructuralFailureStops ==
    Started =>
        \A p \in Positions :
            (\E i \in EventsAt("validate", p) : events[i].res = "invalid") =>
                /\ EndedAt(p)
                /\ Ctx.status = "failed"
                /\ Ctx.error = "Invalid tool input for '" \o lower(steps[p].tool_name)
                                 \o "': validation error"
                /\ Count("lookup", p) = 1 /\ Count("validate", p) = 1
                /\ Invoked(p) = {} /\ ReturnsAt(p) = {}
                /\ Len(Ctx.executed_steps) =
                      Cardinality({i \in 1..Len(returns) : returns[i].pos < p})
                /\ retry_count = 0
                /\ NoEventsAfter(p)

StructuralFailureAtSecondStep ==
    /\ Started /\ Len(steps) >= 2
    /\ \E i \in EventsAt("validate", 2) : events[i].res = "invalid"
    /\ Len(Ctx.executed_steps) = 2
    /\ Ctx.status = "failed"

\* C7 as stated: if a step of the plan names a tool absent from the registry,
\* the call ends failed and executed_steps has strictly fewer entries than
\* the plan has steps.
CallEnded == Started /\ pc = "done"
AbsentPositions == {p \in Positions : ~Registered(p)}

AbsentToolFewerRecords ==
    (CallEnded /\ AbsentPositions # {}) =>
        /\ Ctx.status = "failed"
        /\ Len(Ctx.executed_steps) < Len(steps)

\* C7 as amended: if a step of the plan names a tool absent from the
\* registry, the call ends failed and no record exists for that step or any
\* later step, so fewer than len(steps) steps have a record; executed_steps
\* itself may hold as many entries as the plan or more when earlier steps
\* were retried.
AbsentToolStops ==
    (CallEnded /\ AbsentPositions # {}) =>
        LET first == CHOOSE p \in AbsentPositions : \A q \in AbsentPositions : p <= q
        IN  /\ Ctx.status = "failed"
            /\ Len(Ctx.executed_steps) = Len(returns)
            /\ \A i \in 1..Len(returns) : returns[i].pos < first
            /\ \A q \in Positions : q >= first => Invoked(q) = {}
            /\ Cardinality({returns[i].pos : i \in 1..Len(returns)}) < Len(steps)

AbsentToolAfterRetriedStep ==
    /\ CallEnded /\ Len(steps) = 2
    /\ AbsentPositions = {2}
    /\ Len(Ctx.executed_steps) >= Len(steps)
    /\ Ctx.status = "failed"

(***************************************************************************)
(* Lifecycle of the execution context                                      *)
(***************************************************************************)
\* C8 as stated: in every reachable state of every execution context,
\* final_result is set if and only if status is not running.
FinalResultIffNotRunning ==
    \A id \in DOMAIN contexts :
        (contexts[id].final_result # NoneV) <=> (contexts[id].status # "running")

\* C8 as amended: final_result is never set while status is running, and
\* when AgentRunner.run returns, final_result is set and status is not
\* running; between the transition out of running and the finalization of
\* the Run Orchestrator final_result may still be null.
RunReturned == Started /\ mode = "run" /\ outcome = "returned"

FinalResultOnlyAfterRunning ==
    /\ \A id \in DOMAIN contexts :
          contexts[id].final_result # NoneV => contexts[id].status # "running"
    /\ RunReturned => (Ctx.final_result # NoneV /\ Ctx.status # "running")

FinalizedAfterFailure ==
    /\ RunReturned
    /\ Ctx.status = "failed"
    /\ Len(Ctx.executed_steps) >= 1
    /\ Ctx.final_result.kind = "resolved"

\* C9: for every run-fatal condition (language-model error during planning,
\* plan-parse error, repair exhaustion, missing tool, structural validation
\* failure, retry exhaustion) AgentRunner.run does not raise, and it returns
\* a context with status failed, a non-empty error and a final_result whose
\* source is tool-failure.
PlanFailed == exec_status = "not_called" /\ exc # NoneStr
ExecFailed == exec_status = "returned" /\ idx \in Positions
RunFatal == Started /\ mode = "run" /\ (PlanFailed \/ ExecFailed)

FatalRunsReturnFailed ==
    (Started /\ mode = "run") =>
        /\ outcome # "raised"
        /\ (RunFatal /\ pc = "done") =>
              /\ outcome = "returned"
              /\ Ctx.status = "failed"
              /\ Truthy(Ctx.error)
              /\ Ctx.final_result.kind = "resolved"
              /\ Ctx.final_result.source = "tool-failure"

RepairExhaustedRunReturned ==
    /\ RunFatal /\ pc = "done"
    /\ PlanFailed
    /\ exc \notin {LlmErrorMsg, PlanParseErrorMsg}
    /\ Len(steps) >= 2

\* C10: every call of AgentRunner.run returns, never raises, and returns a
\* context whose status is completed or failed; no two runs share an
\* execution_id, and every stored context is stored under its own id.
RunsEndAndIdsUnique ==
    /\ \A i, j \in 1..Len(issued) : i # j => issued[i] # issued[j]
    /\ DOMAIN contexts = {issued[i] : i \in 1..Len(issued)}
    /\ \A id \in DOMAIN contexts : contexts[id].execution_id = id
    /\ Started =>
          /\ outcome # "raised"
          /\ pc = "done" => (outcome = "returned" /\ Ctx.status \in {"completed", "failed"})
    /\ \A id \in DOMAIN contexts \ {cur} : contexts[id].status \in {"completed", "failed"}

TwoRunsReturned ==
    /\ Len(issued) = 2 /\ pc = "done" /\ outcome = "returned"
    /\ \E id \in DOMAIN contexts : contexts[id].status = "completed"
    /\ \E id \in DOMAIN contexts : contexts[id].status = "failed"

(***************************************************************************)
(* Finalization by the Run Orchestrator                                    *)
(***************************************************************************)
Resolutions == {i \in 1..Len(events) : events[i].ev = "resolve"}
Saves == {i \in 1..Len(events) : events[i].ev = "save"}
InRun == Started /\ mode = "run"

\* C11: in every run _resolve_final_output runs at most once, exactly once
\* by the time the run has ended, and before save_context, also when a fault
\* is raised after the Executor has returned.
ResolvedOnceBeforeSave ==
    InRun =>
        /\ Cardinality(Resolutions) <= 1
        /\ Cardinality(Saves) <= 1
        /\ \A i \in Saves : \E j \in Resolutions : j < i
        /\ pc = "done" => (Cardinality(Resolutions) = 1 /\ Cardinality(Saves) = 1)

\* C12: once the Executor has set status to completed, no later operation of
\* the run changes status, error, executed_steps or intermediate_outputs.
CompletedStays ==
    (InRun /\ cur' = cur /\ Ctx.status = "completed") =>
        /\ contexts'[cur].status = Ctx.status
        /\ contexts'[cur].error = Ctx.error
        /\ contexts'[cur].executed_steps = Ctx.executed_steps
        /\ contexts'[cur].intermediate_outputs = Ctx.intermediate_outputs

CompletedIsTerminal == [][CompletedStays]_vars

\* C13: after AgentRunner.run, if status is failed or some executed-step
\* record has success=false, final_result has source tool-failure and
\* confidence low, and its content is built from the run-level error if there
\* is one, else from the error of the last record, else from the generic
\* message.
LivePrefix == "Unable to fetch live data via HTTP tool. "
FailurePath == Ctx.status = "failed" \/ Failures(Ctx.executed_steps) # {}
ExpectedFailureText ==
    LET recs == Ctx.executed_steps
    IN  "Tool execution failed. " \o
        (IF Ctx.error \notin {NoneStr, ""} THEN Ctx.error
         ELSE IF Len(recs) > 0 /\ recs[Len(recs)].error \notin {NoneStr, ""}
         THEN recs[Len(recs)].error
         ELSE "No additional error details were provided.")

FailureResolution ==
    (RunReturned /\ FailurePath) =>
        /\ Ctx.final_result.kind = "resolved"
        /\ Ctx.final_result.source = "tool-failure"
        /\ Ctx.final_result.confidence = "low"
        /\ Ctx.final_result.content \in
              {ExpectedFailureText, LivePrefix \o ExpectedFailureText}

FailedAttemptInFailedRun ==
    /\ RunReturned
    /\ Ctx.status = "failed"
    /\ Len(Ctx.executed_steps) >= 2
    /\ Ctx.executed_steps[Len(Ctx.executed_steps)].error = "tool error"
    /\ Ctx.final_result.source = "tool-failure"

\* C14: a run whose plan is one http step that reports success=false on
\* every attempt ends failed with source tool-failure, confidence low and a
\* content that begins with the live-data phrase; on the failure path the
\* phrase is present exactly when http is among the tools of the records.
StartsWith(str, prefix) ==
    Len(str) >= Len(prefix) /\ SubSeq(str, 1, Len(prefix)) = prefix
RecordTools == {Ctx.executed_steps[i].tool_name : i \in 1..Len(Ctx.executed_steps)}

HttpFailurePrefix ==
    /\ (RunReturned /\ FailurePath) =>
          (StartsWith(Ctx.final_result.content, LivePrefix) <=> "http" \in RecordTools)
    /\ (RunReturned /\ Len(steps) = 1 /\ exec_status = "returned"
            /\ lower(steps[1].tool_name) = "http"
            /\ AlwaysFails(1) /\ Invoked(1) # {}) =>
          /\ Ctx.status = "failed"
          /\ Ctx.final_result.source = "tool-failure"
          /\ Ctx.final_result.confidence = "low"
          /\ StartsWith(Ctx.final_result.content, LivePrefix)

HttpStepFailedEveryAttempt ==
    /\ RunReturned /\ Len(steps) = 1 /\ max_retries = 2
    /\ lower(steps[1].tool_name) = "http"
    /\ AlwaysFails(1) /\ Cardinality(Invoked(1)) = 2
    /\ StartsWith(Ctx.final_result.content, LivePrefix)

\* C15: when the planner returns an empty step list, so that no step is
\* executed and none fails, the final_result returned by AgentRunner.run has
\* the fixed content "No steps were executed for this goal." with source
\* tool-failure and confidence low.
EmptyPlanRun == RunReturned /\ exec_status # "not_called" /\ Len(steps) = 0

EmptyPlanFixedContent ==
    EmptyPlanRun =>
        /\ Ctx.final_result.kind = "resolved"
        /\ Ctx.final_result.content = "No steps were executed for this goal."
        /\ Ctx.final_result.source = "tool-failure"
        /\ Ctx.final_result.confidence = "low"

\* C16: on the success path (status completed, every record successful, at
\* least one record) source is reasoning-only iff reasoning was the only tool
\* used, http iff http was the only tool used, mixed otherwise; confidence is
\* high for http and mixed, and for reasoning-only high iff the goal contains
\* a deterministic keyword, else medium, never low; a goal containing
\* "calculate" with one successful reasoning step whose output is
\* {answer: "4"} yields content "4", source reasoning-only, confidence high.
SuccessPath ==
    /\ RunReturned /\ Ctx.status = "completed"
    /\ Failures(Ctx.executed_steps) = {}
    /\ Len(Ctx.executed_steps) >= 1
Deterministic(goal) ==
    GoalKeywords(goal) \cap
        {"calculate", "sum", "add", "subtract", "multiply", "divide", "math", "code"} # {}

SuccessLabels ==
    SuccessPath =>
        LET fr == Ctx.final_result
        IN  /\ fr.kind = "resolved"
            /\ fr.source = "reasoning-only" <=> RecordTools = {"reasoning"}
            /\ fr.source = "http" <=> RecordTools = {"http"}
            /\ fr.source = "mixed" <=> RecordTools \notin {{"reasoning"}, {"http"}}
            /\ fr.source \in {"http", "mixed"} => fr.confidence = "high"
            /\ fr.source = "reasoning-only" =>
                  fr.confidence = (IF Deterministic(Ctx.goal) THEN "high" ELSE "medium")
            /\ fr.confidence # "low"
            /\ ("calculate" \in GoalKeywords(Ctx.goal)
                    /\ Len(Ctx.executed_steps) = 1
                    /\ Ctx.executed_steps[1].tool_name = "reasoning"
                    /\ Ctx.executed_steps[1].output = DictV("4", Absent, Absent)) =>
                  /\ fr.content = "4"
                  /\ fr.source = "reasoning-only"
                  /\ fr.confidence = "high"

CalculateAnsweredByReasoning ==
    /\ SuccessPath
    /\ "calculate" \in GoalKeywords(Ctx.goal)
    /\ Len(Ctx.executed_steps) = 1
    /\ Ctx.executed_steps[1].tool_name = "reasoning"
    /\ Ctx.final_result.content = "4"
    /\ Ctx.final_result.confidence = "high"

(***************************************************************************)
(* Content extraction                                                      *)
(***************************************************************************)
Extracted == probe.pc = "done"
Present(v) == v # Absent
Usable(v) == v \notin {Absent, NoneStr, ""}
BodyContent(b) ==
    IF b \in {NoneStr, ""} THEN "Tool completed but returned no data."
    ELSE IF b = "<dict>" THEN "{k: v}"
    ELSE IF b = "<int>" THEN "7"
    ELSE b

\* C17 as stated: the content is a plain-string output verbatim; for a
\* mapping, its answer field, else its message field, else its body field
\* (empty: placeholder, structured: serialized, scalar: stringified), else
\* the whole output serialized, a lower-priority field being used only when
\* every higher-priority field is absent.
ExtractByPresence ==
    Extracted =>
        LET o == probe.output
            r == probe.content
        IN  /\ o.kind = "str" => (r.kind = "ok" /\ r.s = o.s)
            /\ o.kind = "dict" =>
                  /\ r.kind = "ok"
                  /\ (~Present(o.answer) /\ Present(o.message)) => r.s = o.message
                  /\ (~Present(o.answer) /\ ~Present(o.message) /\ Present(o.body)) =>
                        r.s = BodyContent(o.body)
                  /\ (~Present(o.answer) /\ ~Present(o.message) /\ ~Present(o.body)) =>
                        r.s = JsonDumps(o)
                  /\ (Present(o.answer) /\ Present(o.message)
                         /\ o.message \notin {o.answer, NoneStr}) => r.s # o.message
                  /\ ((Present(o.answer) \/ Present(o.message)) /\ Present(o.body)
                         /\ o.body \notin {o.answer, o.message}) => r.s # BodyContent(o.body)

\* C17 as amended: a non-empty plain-string output is the content verbatim
\* and an empty one gives the placeholder; for a mapping the content is its
\* answer field if present and non-empty, else its message field if present
\* and non-empty, else its body field if present (null or empty: placeholder,
\* structured: serialized, scalar: stringified), else the whole output
\* serialized; a lower-priority field is used when every higher-priority
\* field is absent, null or empty.
ExtractByPriority ==
    Extracted =>
        LET o == probe.output
            r == probe.content
        IN  /\ o.kind = "none" => (r.kind = "ok" /\ r.s = "Tool completed but returned no data.")
            /\ o.kind = "str" =>
                  /\ r.kind = "ok"
                  /\ r.s = (IF o.s = "" THEN "Tool completed but returned no data." ELSE o.s)
            /\ o.kind = "dict" =>
                  /\ r.kind = "ok"
                  /\ Usable(o.answer) => r.s = o.answer
                  /\ (~Usable(o.answer) /\ Usable(o.message)) => r.s = o.message
                  /\ (~Usable(o.answer) /\ ~Usable(o.message) /\ Present(o.body)) =>
                        r.s = BodyContent(o.body)
                  /\ (~Usable(o.answer) /\ ~Usable(o.message) /\ ~Present(o.body)) =>
                        r.s = JsonDumps(o)
            /\ o.kind = "object" => r.kind = "raise"

EmptyAnswerGivesMessage ==
    /\ Extracted
    /\ probe.output.kind = "dict"
    /\ probe.output.answer = "" /\ probe.output.message = "done"
    /\ probe.output.body = "text"
    /\ probe.content.s = "done"

(***************************************************************************)
(* Validation and repair of tool inputs                                    *)
(***************************************************************************)
Validating == val.pc # "idle"
ValEnded == val.pc \in {"returned", "raised"}
ToolFound == Validating /\ val.msg # ToolNotFoundMsg(val.tool)
OnlyObjects == \A i \in 1..Len(val.replies) : val.replies[i] = "object"

\* C18: when validation reports an error on every candidate and every repair
\* response parses to an object, validate_and_repair calls the repair
\* collaborator exactly max_attempts times, validates max_attempts + 1
\* candidates and then fails; with max_attempts = 0 it makes no repair call;
\* in no case does it make more than max_attempts repair calls.
RepairBudget ==
    Validating =>
        /\ val.llm_calls <= val.max_attempts
        /\ val.validations <= val.max_attempts + 1
        /\ val.llm_calls = Len(val.replies)
        /\ val.max_attempts = 0 => val.llm_calls = 0
        /\ (val.pc = "raised" /\ ToolFound /\ OnlyObjects) =>
              /\ val.llm_calls = val.max_attempts
              /\ val.validations = val.max_attempts + 1
              /\ val.errors # <<>>
        /\ (ValEnded /\ val.errors # <<>> /\ OnlyObjects /\ ToolFound) => val.pc = "raised"

BudgetUsedUp ==
    /\ val.pc = "raised" /\ ToolFound /\ OnlyObjects
    /\ val.max_attempts = 2 /\ val.llm_calls = 2 /\ val.validations = 3

\* C19 as stated: validate_and_repair, called for a registered tool, has
\* exactly two outcomes: it returns a candidate for which collect_errors is
\* empty, or it raises an error carrying the tool name and the error list of
\* the last validated candidate; a repair response that cannot be parsed or
\* is not an object stops the loop at once.
ExhaustionError ==
    "Unable to repair tool input for '" \o val.tool \o "'. Validation errors: ["
        \o Join(collect_errors(val.tool, val.checked)) \o "]"
RejectedStops ==
    \A i \in 1..Len(val.replies) :
        val.replies[i] \in {"garbage", "array"} =>
            /\ i = Len(val.replies)
            /\ val.pc = "raised"
            /\ val.msg = ExhaustionError
            /\ val.validations = Len(val.replies)

TwoOutcomes ==
    ToolFound =>
        /\ val.pc = "returned" =>
              (val.validations >= 1 /\ collect_errors(val.tool, val.input) = <<>>)
        /\ val.pc = "raised" => val.msg = ExhaustionError
        /\ RejectedStops

\* C19 as amended: validate_and_repair returns a candidate for which
\* collect_errors is empty, or raises the exhaustion error carrying the tool
\* name and the error list of the last validated candidate, or lets the fault
\* of a failed repair call propagate, or raises tool-not-found before any
\* validation when the tool is not registered; a repair response that cannot
\* be parsed or is not an object stops the loop at once with the exhaustion
\* error and no further repair call.
RepairOutcomes ==
    Validating =>
        /\ val.pc = "returned" =>
              (val.validations >= 1 /\ collect_errors(val.tool, val.input) = <<>>)
        /\ val.pc = "raised" =>
              \/ /\ val.msg = ExhaustionError
                 /\ val.validations >= 1
                 /\ val.errors = collect_errors(val.tool, val.checked)
                 /\ val.errors # <<>>
              \/ /\ val.msg = "LLM call failed"
                 /\ Len(val.replies) >= 1
                 /\ val.replies[Len(val.replies)] = "fault"
              \/ /\ val.msg = "Tool '" \o val.tool \o "' not found in registry"
                 /\ val.validations = 0 /\ val.llm_calls = 0
        /\ RejectedStops

RejectedAfterOneRepair ==
    /\ val.pc = "raised"
    /\ val.replies = <<"object", "garbage">>
    /\ val.max_attempts = 2
    /\ val.validations = 2

\* C20: collect_errors evaluates both checks on every input and returns the
\* union: a missing-required error iff some required field is absent, null,
\* an empty or blank string or an empty list or mapping; a schema error iff
\* the structural schema rejects the input; both when both hold and the empty
\* list iff neither holds; an input whose required field is an empty string
\* is reported even when the structural schema accepts it.
NoValue(input, f) ==
    f \notin DOMAIN input
        \/ input[f] \in {"<None>", "", " ", "<emptylist>", "<emptydict>"}
SomeMissing(tool, input) == \E f \in FieldsOf(tool) : NoValue(input, f)
Mentions(errors, prefix) == \E i \in 1..Len(errors) : StartsWith(errors[i], prefix)

CollectErrorsUnion ==
    (Validating /\ val.validations >= 1) =>
        LET missing == SomeMissing(val.tool, val.checked)
            rejected == ~model_validate(val.tool, val.checked)
        IN  /\ Mentions(val.errors, "missing required fields") <=> missing
            /\ Mentions(val.errors, "schema validation error") <=> rejected
            /\ Len(val.errors) = (IF missing THEN 1 ELSE 0) + (IF rejected THEN 1 ELSE 0)
            /\ val.errors = <<>> <=> (~missing /\ ~rejected)
            /\ (\E f \in FieldsOf(val.tool) :
                    f \in DOMAIN val.checked /\ val.checked[f] = "") => val.errors # <<>>

EmptyStringReported ==
    /\ Validating /\ val.validations >= 1
    /\ val.tool = "reasoning"
    /\ "question" \in DOMAIN val.checked /\ val.checked["question"] = ""
    /\ model_validate(val.tool, val.checked)
    /\ Len(val.errors) = 1

BothErrorsReported ==
    /\ Validating /\ val.validations >= 1
    /\ Len(val.errors) = 2

(***************************************************************************)
(* Planning                                                                *)
(***************************************************************************)
\* C21: every step returned by PlannerAgent.plan whose tool is registered has
\* an input with no validation errors (every required field non-empty and
\* the structural schema satisfied); the tool-specific inference comes before
\* the validator: a reasoning step without a question is given the goal text
\* and a memory step without an action or key is given "store" and the key
\* derived from the goal, and when the input so completed has no validation
\* errors it is the input of the returned step.
ErrorFree(tool, input) == ~SomeMissing(tool, input) /\ model_validate(tool, input)
WithField(input, f, v) == [x \in DOMAIN input \cup {f} |-> IF x = f THEN v ELSE input[x]]
Inferred(tool, input, goal) ==
    IF tool = "reasoning"
    THEN IF NoValue(input, "question") THEN WithField(input, "question", goal) ELSE input
    ELSE IF tool = "memory"
    THEN LET a == IF NoValue(input, "action") THEN WithField(input, "action", "store")
                  ELSE input
         IN  IF NoValue(a, "key") THEN WithField(a, "key", infer_memory_key(goal)) ELSE a
    ELSE input

PlanValidated ==
    (InRun /\ pc = "exec") =>
        \A p \in Positions :
            Registered(p) => ErrorFree(lower(steps[p].tool_name), steps[p].input_data)

InferenceFirst ==
    (pc = "repair" /\ idx \in Positions /\ idx' = idx + 1
        /\ lower(steps[idx].tool_name) \in registry) =>
        LET tool == lower(steps[idx].tool_name)
            inferred == Inferred(tool, steps[idx].input_data, Ctx.goal)
        IN  /\ ErrorFree(tool, steps'[idx].input_data)
            /\ ErrorFree(tool, inferred) => steps'[idx].input_data = inferred

PlannedInputsValid == []PlanValidated /\ [][InferenceFirst]_vars

MemoryKeyInferred ==
    /\ InRun /\ pc = "exec" /\ Len(steps) = 2
    /\ Registered(1) /\ lower(steps[1].tool_name) = "memory"
    /\ steps[1].input_data = [f \in {"action", "key"} |->
                                 IF f = "action" THEN "store" ELSE infer_memory_key(Ctx.goal)]
    /\ Registered(2) /\ lower(steps[2].tool_name) = "reasoning"
    /\ steps[2].input_data = [f \in {"question"} |-> Ctx.goal]

\* C22: if the planner's response cannot be parsed as a plan, or the input
\* repair of a step is exhausted during planning, no tool is executed in that
\* run: nothing is looked up, checked or invoked, executed_steps is empty,
\* and the run ends failed.
PlanningFault ==
    InRun /\ (exc = PlanParseErrorMsg \/ StartsWith(exc, "Unable to repair tool input"))

PlanFaultRunsNoTool ==
    PlanningFault =>
        /\ exec_status = "not_called"
        /\ events \in {<<>>, <<Event("resolve", 0, "done"), Event("save", 0, "done")>>}
        /\ returns = <<>>
        /\ Ctx.executed_steps = <<>>
        /\ Ctx.intermediate_outputs = EmptyDict
        /\ pc = "done" => (outcome = "returned" /\ Ctx.status = "failed")

ParseFaultRunReturned ==
    /\ PlanningFault /\ exc = PlanParseErrorMsg
    /\ pc = "done" /\ Ctx.status = "failed"
    /\ registry = ToolNames

\* C23: tools are invoked in the order of the plan list, whatever the
\* step_number values are: the positions of successive invocations never
\* decrease, an invocation for a later position happens only after every
\* earlier position has had a successful invocation, and a position is not
\* invoked again once it has succeeded.
InvokeEvents == {k \in 1..Len(events) : events[k].ev = "invoke"}
ReturnOf(k) ==
    returns[Cardinality({m \in 1..k : events[m].ev = "invoke" /\ events[m].res = "returned"})]
SucceededAt(k) == events[k].res = "returned" /\ ReturnOf(k).out.success

InvokedInPlanOrder ==
    Started =>
        \A k \in InvokeEvents :
            /\ \A m \in InvokeEvents :
                  m < k => /\ events[m].pos <= events[k].pos
                           /\ events[m].pos = events[k].pos => ~SucceededAt(m)
            /\ \A p \in 1..(events[k].pos - 1) :
                  \E m \in InvokeEvents : m < k /\ events[m].pos = p /\ SucceededAt(m)

DescendingNumbersListOrder ==
    /\ Started /\ Len(steps) = 2
    /\ steps[1].step_number > steps[2].step_number
    /\ \E k \in InvokeEvents : events[k].pos = 1 /\ ~SucceededAt(k)
    /\ \E k \in InvokeEvents : events[k].pos = 2 /\ SucceededAt(k)

\* C24: after a step succeeds, intermediate_outputs holds its output under
\* the name of its tool and also under the key step_<step_number>.
LastInvoke == CHOOSE k \in InvokeEvents : \A m \in InvokeEvents : m <= k

OutputsUnderBothKeys ==
    (Started /\ InvokeEvents # {} /\ SucceededAt(LastInvoke)) =>
        LET step == steps[events[LastInvoke].pos]
            out == ReturnOf(LastInvoke).out.result
        IN  /\ Get(Ctx.intermediate_outputs, lower(step.tool_name), NoneV) = out
            /\ Get(Ctx.intermediate_outputs, StepKey(step.step_number), NoneV) = out

\* C25: when every step of a non-empty plan succeeds, execute completes the
\* context with the synthesized result {content, source reasoning-only, note}
\* if the last record used the reasoning tool, and otherwise with the output
\* of the last step of the plan.
ExecutorCompleted ==
    /\ Started /\ mode = "direct" /\ pc = "done"
    /\ exec_status = "returned" /\ Ctx.status = "completed"
    /\ Len(steps) > 0

ExecutorFinalResult ==
    ExecutorCompleted =>
        LET recs == Ctx.executed_steps
            last == recs[Len(recs)]
        IN  IF last.tool_name = "reasoning"
            THEN /\ Ctx.final_result.kind = "synthesized"
                 /\ Ctx.final_result.source = "reasoning-only"
                 /\ Ctx.final_result.note = "No external tools used"
            ELSE Ctx.final_result = last.output

\* C26: within one run the memory tool round-trips: after the run stored V
\* under K, retrieve of K succeeds with exactly V; a later store under K
\* replaces the value; a store under a different key leaves K unchanged.
\* (Stated for every key that only this run has stored to.)
IsStore(e) == MemoryToolInput(e.kwargs) /\ lower(e.kwargs.action) = "store"
IsRetrieve(e) == MemoryToolInput(e.kwargs) /\ lower(e.kwargs.action) = "retrieve"
StoresBefore(i, key) ==
    {j \in 1..(i - 1) : IsStore(mem.log[j]) /\ mem.log[j].kwargs.key = key}
LatestStore(i, key) == CHOOSE j \in StoresBefore(i, key) : \A m \in StoresBefore(i, key) : m <= j
OwnKey(i) ==
    /\ StoresBefore(i, mem.log[i].kwargs.key) # {}
    /\ \A j \in StoresBefore(i, mem.log[i].kwargs.key) : mem.log[j].run = mem.log[i].run

MemoryRoundTrip ==
    \A i \in 1..Len(mem.log) :
        (IsRetrieve(mem.log[i]) /\ OwnKey(i)) =>
            LET key == mem.log[i].kwargs.key
            IN  /\ mem.log[i].out.success
                /\ mem.log[i].out.result =
                       RetrievedResult(key, mem.log[LatestStore(i, key)].kwargs.value)

ReplacedValueRetrieved ==
    /\ Len(mem.log) = 3
    /\ \A i \in 1..3 : mem.log[i].run = 1
    /\ IsStore(mem.log[1]) /\ IsStore(mem.log[2]) /\ IsRetrieve(mem.log[3])
    /\ mem.log[1].kwargs.key = "k1" /\ mem.log[2].kwargs.key = "k1"
    /\ mem.log[3].kwargs.key = "k1"
    /\ mem.log[1].kwargs.value = "v1" /\ mem.log[2].kwargs.value = "v2"
    /\ mem.log[3].out.result = RetrievedResult("k1", "v2")

\* C29: the store of the memory tool is one process-wide dict without a
\* lock: a retrieve returns the value of the most recent store under its key
\* whichever run made that store (and fails with "not found" when no run has
\* stored the key), so when two runs store different values under one key
\* there is an interleaving in which a run's retrieve, issued right after its
\* own store, returns the other run's value.
SharedStoreLastWriter ==
    \A i \in 1..Len(mem.log) :
        IsRetrieve(mem.log[i]) =>
            LET key == mem.log[i].kwargs.key
            IN  IF StoresBefore(i, key) = {}
                THEN mem.log[i].out =
                         ToolOutput(FALSE, NoneV, "Key '" \o key \o "' not found in memory")
                ELSE mem.log[i].out =
                         ToolOutput(TRUE,
                                    RetrievedResult(key, mem.log[LatestStore(i, key)].kwargs.value),
                                    NoneStr)

OtherRunsValueRetrieved ==
    /\ Len(mem.log) = 3
    /\ mem.log[1].run = 1 /\ mem.log[2].run = 2 /\ mem.log[3].run = 1
    /\ IsStore(mem.log[1]) /\ IsStore(mem.log[2]) /\ IsRetrieve(mem.log[3])
    /\ \A i \in 1..3 : mem.log[i].kwargs.key = "k1"
    /\ mem.log[1].kwargs.value = "v1" /\ mem.log[2].kwargs.value = "v2"
    /\ mem.log[3].out.success
    /\ mem.log[3].out.result.value = "v2"

\* C27: the tool registry is append-only: register raises when the name is
\* already registered and leaves the registry unchanged; every name, once
\* registered, stays mapped to the same tool; initialize_tools can be called
\* any number of times without raising; get of a name that is not registered
\* returns the absent value.
MappingsKept ==
    \A n \in DOMAIN toolreg.tools :
        n \in DOMAIN toolreg'.tools /\ toolreg'.tools[n] = toolreg.tools[n]

RegisterOutcome ==
    toolreg'.last.op = "register" =>
        LET n == toolreg'.last.name
        IN  IF n \in DOMAIN toolreg.tools
            THEN toolreg'.last.result = "raised" /\ toolreg'.tools = toolreg.tools
            ELSE /\ toolreg'.last.result = "ok"
                 /\ toolreg'.tools = Put(toolreg.tools, n, toolreg'.last.inst)

LookupAndInitialize ==
    /\ toolreg.last.op = "initialize" =>
          /\ toolreg.last.result = "ok"
          /\ toolreg.initialized
          /\ {"http", "memory"} \subseteq DOMAIN toolreg.tools
    /\ toolreg.last.op = "get" =>
          toolreg.last.result =
              IF toolreg.last.name \in DOMAIN toolreg.tools
              THEN ToolRef(toolreg.tools[toolreg.last.name]) ELSE NoneStr

RegistryAppendOnly ==
    []LookupAndInitialize /\ [][MappingsKept /\ RegisterOutcome]_vars

DuplicateRegisterRaised ==
    /\ toolreg.last.op = "register" /\ toolreg.last.result = "raised"
    /\ toolreg.last.name = "http"
    /\ toolreg.tools["http"] = BuiltinTool
    /\ toolreg.initialized
    /\ "reasoning" \in DOMAIN toolreg.tools

\* C28: runs with distinct execution ids are independent in the execution
\* store: under every interleaving of their create_execution_context,
\* save_context and get_context operations each id stays mapped to the
\* context of its own run, no record is overwritten or lost, and
\* get_context(id) returns the context created under that id.
Created == {r \in StoreRuns : clients.runs[r].pc # "new"}

StoreRunsIndependent ==
    /\ DOMAIN contexts = {clients.runs[r].id : r \in Created}
    /\ \A r \in Created :
          LET run == clients.runs[r]
          IN  /\ run.id \in DOMAIN contexts
              /\ contexts[run.id].execution_id = run.id
              /\ contexts[run.id].goal = run.goal
              /\ contexts[run.id].status = run.status
              /\ \A q \in Created : q # r => clients.runs[q].id # run.id
    /\ clients.got.found =>
          /\ clients.got.execution_id = clients.got.asked
          /\ \E r \in Created : /\ clients.runs[r].id = clients.got.asked
                                /\ clients.runs[r].goal = clients.got.goal

TwoRunsSavedAndRead ==
    /\ Created = StoreRuns
    /\ clients.runs[1].pc = "saved" /\ clients.runs[1].status = "failed"
    /\ clients.runs[2].pc = "saved" /\ clients.runs[2].status = "completed"
    /\ clients.runs[1].goal # clients.runs[2].goal
    /\ clients.got.found /\ clients.got.asked = clients.runs[1].id
    /\ clients.got.goal = clients.runs[1].goal

\* C30: the execution summary of a run lists in tools_used the distinct tool
\* names of the records in the order of their first call, tool_failures is
\* the number of records with success=false and reasoning_steps the number
\* of records of the reasoning tool; it is computed on the success path and
\* on the exception path alike.
RunEnded == Started /\ mode = "run" /\ pc = "done"
FirstCall(t) ==
    CHOOSE i \in 1..Len(Ctx.executed_steps) :
        /\ Ctx.executed_steps[i].tool_name = t
        /\ \A j \in 1..(i - 1) : Ctx.executed_steps[j].tool_name # t

SummaryMatchesRecords ==
    RunEnded =>
        LET summary == Ctx.execution_summary
            used == summary.tools_used
        IN  /\ summary.kind = "summary"
            /\ {used[i] : i \in 1..Len(used)} = RecordTools
            /\ \A i, j \in 1..Len(used) :
                  i < j => /\ used[i] # used[j]
                           /\ FirstCall(used[i]) < FirstCall(used[j])
            /\ summary.tool_failures = Cardinality(Failures(Ctx.executed_steps))
            /\ summary.reasoning_steps =
                   Cardinality({i \in 1..Len(Ctx.executed_steps) :
                                   Ctx.executed_steps[i].tool_name = "reasoning"})

SummaryOfRetriedFailure ==
    /\ RunEnded /\ outcome = "returned"
    /\ Len(Ctx.executed_steps) = 3
    /\ Ctx.execution_summary.tools_used = <<"reasoning", "http">>
    /\ Ctx.execution_summary.tool_failures = 2
    /\ Ctx.execution_summary.reasoning_steps = 1

(***************************************************************************)
(* The endpoint, key derivation, labels of completed runs, double           *)
(* validation, cost and termination                                         *)
(***************************************************************************)
\* C31: for every context returned by AgentRunner.run, also one with
\* executed-step records, the execute endpoint answers with a run response
\* (not an error) whose steps_completed has one entry per record in the same
\* order and which carries the intent and the execution_summary of the run.
Responded == response.kind # "none"

EndpointReturnsRun ==
    Responded =>
        /\ response.kind = "response"
        /\ Len(response.steps_completed) = Len(Ctx.executed_steps)
        /\ \A i \in 1..Len(Ctx.executed_steps) :
              /\ response.steps_completed[i].step_number = Ctx.executed_steps[i].step_number
              /\ response.steps_completed[i].tool_name = Ctx.executed_steps[i].tool_name
              /\ response.steps_completed[i].success = Ctx.executed_steps[i].success
        /\ response.intent = Ctx.intent
        /\ response.execution_summary = Ctx.execution_summary

\* C32: memory-key derivation is normalizing: for every goal the derived key
\* is non-empty, at most 40 characters long, consists only of lower-case
\* alphanumerics and single underscores with no leading underscore, and is
\* "result" when the goal has no alphanumeric character; goals that differ
\* only in letter case and in runs of non-alphanumeric characters derive the
\* same key.
LowerAlnum == {"a", "b", "i", "2", "r", "e", "s", "u", "l", "t"}
KeyDerived == probe.pc = "key_done"
\* the goal with its letters lower-cased and its punctuation turned to blanks
Plain(goal) ==
    [i \in 1..Len(goal) |->
        IF goal[i] = "B" THEN "b" ELSE IF goal[i] \in {"!", "_"} THEN " " ELSE goal[i]]

KeyNormalized ==
    KeyDerived =>
        LET key == probe.key
        IN  /\ key # <<>>
            /\ Len(key) <= KeyLimit
            /\ \A i \in 1..Len(key) : key[i] \in LowerAlnum \cup {"_"}
            /\ key[1] # "_"
            /\ \A i \in 1..(Len(key) - 1) : ~(key[i] = "_" /\ key[i + 1] = "_")
            /\ (\A i \in 1..Len(probe.goal) : ~isalnum(probe.goal[i])) => key = ResultKey
            /\ key = infer_memory_key_chars(Plain(probe.goal))

\* C33 as stated: a context that AgentRunner.run returns with status
\* completed, also after failed attempts that were retried, has a final_result
\* whose source is not tool-failure and whose confidence is not low.
CompletedRun == RunReturned /\ Ctx.status = "completed"

CompletedNeverToolFailure ==
    CompletedRun =>
        /\ Ctx.final_result.source # "tool-failure"
        /\ Ctx.final_result.confidence # "low"

\* C33 (amended): a completed run all of whose records are successful has a
\* final_result with a source other than tool-failure, a confidence other
\* than low and the content extracted from the output of its last record; a
\* completed run that has a failed attempt among its records is resolved on
\* the failure path: source tool-failure, confidence low, content built from
\* the error of the last record or the no-details text.
CompletedRunLabels ==
    CompletedRun =>
        LET recs == Ctx.executed_steps
            fr == Ctx.final_result
        IN  /\ Len(recs) >= 1
            /\ recs[Len(recs)].success
            /\ fr.kind = "resolved"
            /\ IF Failures(recs) = {}
               THEN /\ fr.source \in {"reasoning-only", "http", "mixed"}
                    /\ fr.confidence \in {"high", "medium"}
                    /\ fr.content = extract_content(recs[Len(recs)]).s
               ELSE /\ fr.source = "tool-failure"
                    /\ fr.confidence = "low"
                    /\ StartsWith(fr.content, "Tool execution failed. ")
                          \/ StartsWith(fr.content, LivePrefix)

CompletedAfterRetryIsToolFailure ==
    /\ CompletedRun
    /\ Len(Ctx.executed_steps) = 2
    /\ ~Ctx.executed_steps[1].success /\ Ctx.executed_steps[2].success
    /\ Ctx.executed_steps[1].tool_name = "reasoning"
    /\ Ctx.final_result.source = "tool-failure"
    /\ Ctx.final_result.confidence = "low"

\* C34: every tool name the planner prompt tells the language model to use
\* (reasoning, http, memory) resolves to a tool in the registry once
\* initialize_tools has run, so a well-formed one-step reasoning plan whose
\* tool call would succeed ends with status completed and does not fail on
\* the tool lookup.
PromptTools == {"reasoning", "http", "memory"}

PromptToolsResolve ==
    /\ initialized => \A t \in PromptTools : registry_get(t) # NoneStr
    /\ (RunReturned /\ {"http", "memory"} \subseteq call_registry
            /\ Len(steps) = 1 /\ steps[1].tool_name = "reasoning"
            /\ (\A i \in Invoked(1) : events[i].res = "returned")
            /\ (\A i \in ReturnsAt(1) : returns[i].out = ToolOutput(TRUE, OutAnswer, NoneStr))) =>
          Ctx.status = "completed"

\* C35: along AgentRunner.run the second validation is redundant: every step
\* with a registered tool that plan returns passes the structural check of
\* the Executor, so that check never fails for plans produced by plan; the
\* Executor makes no language-model call and starts no repair round, and its
\* retries use the same input.
RunMode == Started /\ mode = "run"
ValidateEvents == {k \in 1..Len(events) : events[k].ev = "validate"}
RepairCallsAt(pos) == {k \in 1..Len(llm) : llm[k].purpose = "repair" /\ llm[k].pos = pos}

StructuralCheckPasses ==
    RunMode =>
        /\ \A k \in ValidateEvents : events[k].res = "valid"
        /\ ~StartsWith(Ctx.error, "Invalid tool input")
ExecutorKeepsInputs == pc = "exec" => (llm' = llm /\ steps' = steps)

DoubleValidationRedundant == []StructuralCheckPasses /\ [][ExecutorKeepsInputs]_vars

RepairedInputCheckedTwice ==
    /\ RunMode /\ pc = "done"
    /\ Len(steps) = 1 /\ lower(steps[1].tool_name) = "http"
    /\ Cardinality(RepairCallsAt(1)) = 2
    /\ Count("validate", 1) = 2
    /\ Cardinality(Invoked(1)) = 2

\* C36: the language-model cost of planning is bounded: plan makes exactly
\* one planning call, at most max_attempts repair calls for each step whose
\* tool is registered, and no repair call for a step whose tool is not
\* registered or whose input is valid after the tool-specific inference.
PlanCalls == {k \in 1..Len(llm) : llm[k].purpose = "plan"}

PlanningCalls ==
    RunMode =>
        /\ Cardinality(PlanCalls) = (IF pc = "plan" THEN 0 ELSE 1)
        /\ llm # <<>> => llm[1].purpose = "plan"
        /\ \A k \in 1..Len(llm) : llm[k].purpose = "repair" => llm[k].pos \in Positions
        /\ \A p \in Positions :
              /\ Cardinality(RepairCallsAt(p)) <= max_attempts
              /\ ~Registered(p) => RepairCallsAt(p) = {}
ValidInputCostsNothing ==
    (pc = "repair" /\ idx <= Len(steps)
        /\ collect_errors(lower(steps[idx].tool_name),
                          repair_tool_input(Ctx.goal, lower(steps[idx].tool_name),
                                            steps[idx].input_data)) = <<>>) =>
        llm' = llm

PlanningCostBounded == []PlanningCalls /\ [][ValidInputCostsNothing]_vars

FullBudgetForOneStepOnly ==
    /\ RunMode /\ pc = "exec"
    /\ Len(steps) = 2
    /\ lower(steps[1].tool_name) = "http" /\ steps[2].tool_name = "reasoning"
    /\ Registered(1) /\ Registered(2)
    /\ Cardinality(RepairCallsAt(1)) = max_attempts
    /\ RepairCallsAt(2) = {}
    /\ Len(llm) = 1 + max_attempts

\* C37: ExecutorAgent.execute terminates for every finite plan and every tool
\* behaviour in which each call returns or raises: once it has ended it has
\* made at most len(steps) * max_retries tool invocations in total and at
\* most max_retries for any single step, and the context has status
\* completed or failed.
ExecutorEndsBounded ==
    (Started /\ ExecutorEnded) =>
        /\ exec_status = "returned"
        /\ Ctx.status \in {"completed", "failed"}
        /\ Cardinality(InvokeEvents) <= Len(steps) * Max0(max_retries)
        /\ \A p \in Positions : Cardinality(Invoked(p)) <= Max0(max_retries)

\* C38: with max_retries = 0 or negative and a non-empty plan the Executor
\* performs no lookup, no validation and no tool invocation: the first step
\* is declared failed with a message that reports max_retries attempts,
\* executed_steps stays empty and the context is failed, whatever the tools
\* would have returned.
NoAttemptAllowed == Started /\ max_retries <= 0 /\ Len(steps) > 0 /\ exec_status # "not_called"

ZeroRetriesFailsFirstStep ==
    NoAttemptAllowed =>
        /\ \A k \in 1..Len(events) : events[k].ev \notin {"lookup", "validate", "invoke"}
        /\ returns = <<>>
        /\ Ctx.executed_steps = <<>>
        /\ ExecutorEnded =>
              /\ exec_status = "returned"
              /\ idx = 1
              /\ Ctx.status = "failed"
              /\ StartsWith(Ctx.error,
                            "Step " \o ToString(steps[1].step_number) \o " failed after "
                                \o ToString(max_retries) \o " attempts: ")

NegativeRetriesRunFailed ==
    /\ NoAttemptAllowed /\ ExecutorEnded
    /\ max_retries = -1
    /\ Len(steps) = 2 /\ steps[1].step_number = 2
    /\ ToolNames \subseteq call_registry
    /\ ValidInput(1)
    /\ Ctx.status = "failed"
    /\ Ctx.error = "Step 2 failed after -1 attempts: No error details were provided"

\* C39: in every reachable state of an execution context, error is set if
\* and only if status is failed: a completed or running context has no
\* error, and a failed context has a non-empty error.
ErrorIffFailed ==
    \A id \in DOMAIN contexts :
        /\ contexts[id].error # NoneStr <=> contexts[id].status = "failed"
        /\ contexts[id].status = "failed" => Truthy(contexts[id].error)

FailedAfterCompletionHasError ==
    /\ RunMode /\ pc = "done"
    /\ exec_status = "returned" /\ Failures(Ctx.executed_steps) = {}
    /\ Len(Ctx.executed_steps) >= 1
    /\ Ctx.status = "failed"
    /\ Ctx.error = "Agent run failed: " \o JsonErrorMsg

\* C40: when the full text is not valid JSON, parse_json returns the longest
\* slice that parses among those starting at the first opening bracket of
\* either kind, and fails when none does; a list of step objects wrapped in
\* prose comes back as the whole list, and _parse_plan makes one step of
\* each of its objects.
FirstBracket(text) ==
    IF \E i \in 1..Len(text) : text[i] \in {"{", "["}
    THEN CHOOSE i \in 1..Len(text) :
             text[i] \in {"{", "["} /\ \A j \in 1..(i - 1) : text[j] \notin {"{", "["}
    ELSE 0
LongestFromFirstBracket(text) ==
    IF FirstBracket(text) = 0 THEN JSONDecodeError
    ELSE first_parsing_slice(text, FirstBracket(text))
JsonParsed == probe.pc = "json_done" /\ ~loads(probe.text).ok

RecoveredFromFirstBracket ==
    JsonParsed =>
        /\ probe.parsed = LongestFromFirstBracket(probe.text)
        /\ \A n \in 0..MaxSteps :
               probe.text \in Wrapped(StepArray(n)) =>
                   /\ probe.parsed = loads(StepArray(n))
                   /\ probe.plan = PlanParsed(n)

====
